---- MODULE Spec2Model ----
(***************************************************************************)
(* A model of qopensearch: the OpenSearch description reader                *)
(* (src/src/opensearchreader.cpp) and the engine with its suggestion        *)
(* client (src/unnamed/part_000, the second opensearchengine.cpp in that    *)
(* file, lines 541-1180).                                                   *)
(*                                                                         *)
(* A QString is a sequence of symbols (each symbol stands for a chunk of    *)
(* characters); the empty QString is << >>.                                 *)
(***************************************************************************)
EXTENDS Integers, Sequences, FiniteSets, TLC

VARIABLES
    \* ---- suggestion client (OpenSearchEngine + QNetworkAccessManager) ----
    d,          \* OpenSearchEnginePrivate of the one engine under test
    replies,    \* every QNetworkReply the transport has created, by creation order
    signals,    \* the suggestions() signals emitted so far
    crashed,    \* the process died (failed Q_ASSERT or null dereference)
    \* ---- document reader (OpenSearchReader on a QXmlStreamReader) ----
    device,     \* the token stream of the QIODevice handed to read()
    rd,         \* the reader: cursor, error state, m_engine
    rpc,        \* where the reader is: "idle", "loop" (readDocument's loop), "done"
    reads,      \* how many read() calls this reader has started
    prev,       \* what the previous read() left with the caller: engine and error
    \* ---- calls on the engine ----
    call,       \* the last call recorded on the engine: its name, argument and term
    ret         \* what the last searchUrl()/suggestionsUrl() returned

clientVars == <<d, replies, signals, crashed>>
readerVars == <<device, rd, rpc, reads, prev>>
apiVars == <<call, ret>>
vars == <<d, replies, signals, crashed, device, rd, rpc, reads, prev, call, ret>>

(***************************************************************************)
(* QString helpers                                                          *)
(***************************************************************************)
Empty == << >>
Str(x) == <<x>>
IsEmpty(s) == s = << >>

\* QString::toLower on the symbols the model uses.
LowerSym(c) ==
    CASE c = "POST" -> "post"
      [] c = "Post" -> "post"
      [] c = "GET"  -> "get"
      [] c = "PUT"  -> "put"
      [] OTHER      -> c

ToLower(s) == [i \in 1..Len(s) |-> LowerSym(s[i])]

\* d->requestMethods, filled by the constructor.
RequestMethods == {Str("get"), Str("post")}

(***************************************************************************)
(* OpenSearchEnginePrivate                                                  *)
(***************************************************************************)
NullReply == 0

\* No call recorded yet; a default-constructed QUrl.
NoCall == [op |-> "none", arg |-> Empty, term |-> Empty]
NoUrl == [encoded |-> Empty, items |-> << >>]

OpenSearchEnginePrivate ==
    [ name                   |-> Empty,
      description            |-> Empty,
      imageUrl               |-> Empty,
      tags                   |-> << >>,
      searchUrlTemplate      |-> Empty,
      suggestionsUrlTemplate |-> Empty,
      searchParameters       |-> << >>,
      suggestionsParameters  |-> << >>,
      searchMethod           |-> Str("get"),
      suggestionsMethod      |-> Str("get"),
      networkAccessManager   |-> FALSE,
      suggestionsReply       |-> NullReply,
      delegate               |-> FALSE ]

providesSuggestions(e) == ~IsEmpty(e.suggestionsUrlTemplate)

\* isValid() looking at the name only
isValid_NameOnly(e) == ~IsEmpty(e.name)

isValid(e) == ~IsEmpty(e.name) /\ ~IsEmpty(e.searchUrlTemplate)

\* setSearchMethod without the conversion to lower case
setSearchMethod_NoLower(e, method) ==
    IF method \notin RequestMethods
    THEN e
    ELSE [e EXCEPT !.searchMethod = method]

setSearchMethod(e, method) ==
    LET requestMethod == ToLower(method)
    IN  IF requestMethod \notin RequestMethods
        THEN e
        ELSE [e EXCEPT !.searchMethod = requestMethod]

setSuggestionsMethod(e, method) ==
    LET requestMethod == ToLower(method)
    IN  IF requestMethod \notin RequestMethods
        THEN e
        ELSE [e EXCEPT !.suggestionsMethod = requestMethod]

(***************************************************************************)
(* URL construction                                                         *)
(***************************************************************************)
\* QLocale().name() with '_' replaced by '-' (lines 665-667)
Language == "en-US"

\* QCoreApplication::applicationName()
ApplicationName == "app"

\* QUrl::toPercentEncoding on the symbols the model uses.
PercentSym(c) ==
    CASE c = "a b" -> "a%20b"
      [] c = "{count}" -> "%7Bcount%7D"
      [] c = "{searchTerms}" -> "%7BsearchTerms%7D"
      [] c = "{language}" -> "%7Blanguage%7D"
      [] OTHER -> c

ToPercentEncoding(s) == [i \in 1..Len(s) |-> PercentSym(s[i])]

\* QString::replace(before, after): every occurrence, from left to right.
\* before is the set of symbols the pattern matches.
RECURSIVE replace(_, _, _)
replace(s, before, after) ==
    IF s = << >> THEN << >>
    ELSE (IF Head(s) \in before THEN after ELSE <<Head(s)>>)
             \o replace(Tail(s), before, after)

\* The placeholders QRegExp("\\{([^\\}]*:|)source\\??\\}") matches (line 676).
SourceForms == {"{source}", "{source?}", "{ns:source}", "{ns:source?}"}

\* The term substituted as it is, not percent-encoded.
parseTemplate_RawTerm(searchTerm, searchTemplate) ==
    LET r1 == replace(searchTemplate, {"{count}"}, <<"20">>)
        r2 == replace(r1, {"{startIndex}"}, <<"0">>)
        r3 == replace(r2, {"{startPage}"}, <<"0">>)
        r4 == replace(r3, {"{language}"}, <<Language>>)
        r5 == replace(r4, {"{inputEncoding}"}, <<"UTF-8">>)
        r6 == replace(r5, {"{outputEncoding}"}, <<"UTF-8">>)
        r7 == replace(r6, SourceForms, <<ApplicationName>>)
    IN  replace(r7, {"{searchTerms}"}, searchTerm)

\* Lines 663-680: one replace after the other on the result of the last.
parseTemplate(searchTerm, searchTemplate) ==
    LET r1 == replace(searchTemplate, {"{count}"}, <<"20">>)
        r2 == replace(r1, {"{startIndex}"}, <<"0">>)
        r3 == replace(r2, {"{startPage}"}, <<"0">>)
        r4 == replace(r3, {"{language}"}, <<Language>>)
        r5 == replace(r4, {"{inputEncoding}"}, <<"UTF-8">>)
        r6 == replace(r5, {"{outputEncoding}"}, <<"UTF-8">>)
        r7 == replace(r6, SourceForms, <<ApplicationName>>)
    IN  replace(r7, {"{searchTerms}"}, ToPercentEncoding(searchTerm))

\* QUrl::fromEncoded and QUrl::addQueryItem
fromEncoded(s) == [encoded |-> s, items |-> << >>]
addQueryItem(url, key, value) == [url EXCEPT !.items = Append(@, <<key, value>>)]

\* The loop of lines 768-771 (822-823) from the i-th parameter on.
RECURSIVE addQueryItems(_, _, _, _)
addQueryItems(url, parameters, searchTerm, i) ==
    IF i > Len(parameters) THEN url
    ELSE addQueryItems(
             addQueryItem(url, parameters[i][1], parseTemplate(searchTerm, parameters[i][2])),
             parameters, searchTerm, i + 1)

\* searchUrl with the parameters appended whatever the method
searchUrl_AlwaysAppend(e, searchTerm) ==
    IF IsEmpty(e.searchUrlTemplate) THEN NoUrl
    ELSE addQueryItems(fromEncoded(parseTemplate(searchTerm, e.searchUrlTemplate)),
                       e.searchParameters, searchTerm, 1)

searchUrl(e, searchTerm) ==
    IF IsEmpty(e.searchUrlTemplate) THEN NoUrl
    ELSE LET retVal == fromEncoded(parseTemplate(searchTerm, e.searchUrlTemplate))
         IN  IF e.searchMethod # Str("post")
             THEN addQueryItems(retVal, e.searchParameters, searchTerm, 1)
             ELSE retVal

suggestionsUrl(e, searchTerm) ==
    IF IsEmpty(e.suggestionsUrlTemplate) THEN NoUrl
    ELSE LET retVal == fromEncoded(parseTemplate(searchTerm, e.suggestionsUrlTemplate))
         IN  IF e.suggestionsMethod # Str("post")
             THEN addQueryItems(retVal, e.suggestionsParameters, searchTerm, 1)
             ELSE retVal

\* Lines 1051-1057 and 1087-1093: key=value of every pair from the i-th on,
\* joined with "&"; toUtf8() leaves the symbols as they are.
RECURSIVE joinParameters(_, _)
joinParameters(parameters, i) ==
    IF i > Len(parameters) THEN << >>
    ELSE (IF i > 1 THEN <<"&">> ELSE << >>)
             \o parameters[i][1] \o <<"=">> \o parameters[i][2]
             \o joinParameters(parameters, i + 1)

\* The request with every parameter value expanded against the term before
\* it goes into the body.
suggestionsRequest_ExpandedBody(e, searchTerm) ==
    IF e.suggestionsMethod = Str("get")
    THEN [operation |-> "get", url |-> suggestionsUrl(e, searchTerm), data |-> << >>]
    ELSE [operation |-> "post", url |-> suggestionsUrl(e, searchTerm),
          data |-> joinParameters(
                       [i \in 1..Len(e.suggestionsParameters) |->
                            <<e.suggestionsParameters[i][1],
                              parseTemplate(searchTerm, e.suggestionsParameters[i][2])>>],
                       1)]

\* Lines 1046-1058: the request requestSuggestions hands to the transport.
suggestionsRequest(e, searchTerm) ==
    IF e.suggestionsMethod = Str("get")
    THEN [operation |-> "get", url |-> suggestionsUrl(e, searchTerm), data |-> << >>]
    ELSE [operation |-> "post", url |-> suggestionsUrl(e, searchTerm),
          data |-> joinParameters(e.suggestionsParameters, 1)]

\* requestMethods.value(method), the map filled at lines 649-650
Operation(method) == IF method = Str("post") THEN "post" ELSE "get"

\* The performer called with the operation always GET.
requestSearchResults_AlwaysGet(e, searchTerm) ==
    IF ~e.delegate \/ IsEmpty(searchTerm) THEN << >>
    ELSE << [operation |-> "get", url |-> searchUrl(e, searchTerm), data |-> << >>] >>

\* Lines 1073-1095: the calls of performSearchRequest the function makes.
requestSearchResults(e, searchTerm) ==
    IF ~e.delegate \/ IsEmpty(searchTerm) THEN << >>
    ELSE LET operation == Operation(e.searchMethod)
             data == IF operation = "post"
                     THEN joinParameters(e.searchParameters, 1)
                     ELSE << >>
         IN  << [operation |-> operation, url |-> searchUrl(e, searchTerm),
                 data |-> data] >>

(***************************************************************************)
(* Suggestion response bodies: a body is a sequence of lexical tokens.      *)
(***************************************************************************)
Lex(t, v) == [t |-> t, v |-> v]
LB == Lex("[", "")
RB == Lex("]", "")
COMMA == Lex(",", "")
WS == Lex("ws", "")
QS(x) == Lex("str", x)
NUM(x) == Lex("num", x)
WORD(x) == Lex("word", x)
SEMI == Lex(";", "")

\* The bodies the transport may deliver.
Bodies ==
    { << >>,
      <<WS>>,
      <<WORD("not-an-array")>>,
      <<LB, QS("q"), COMMA, LB, QS("a"), COMMA, QS("b"), RB>>,
      <<WS, LB, QS("q"), COMMA, LB, QS("a"), COMMA, QS("b"), RB, RB, WS>>,
      <<LB, QS("q"), COMMA, LB, QS("c"), RB, RB>>,
      <<LB, QS("q"), COMMA, LB, RB, RB>>,
      <<LB, QS("q"), RB>>,
      <<LB, QS("q"), COMMA, QS("a"), RB>>,
      <<LB, QS("q"), COMMA, LB, QS("a"), RB, RB, SEMI>>,
      <<LB, QS("q"), COMMA, LB, QS("a"), RB, COMMA, LB, QS("d"), RB, RB>>,
      <<LB, QS("q"), COMMA, LB, QS("a"), COMMA, NUM("1"), RB, RB>> }

RECURSIVE TrimLeft(_)
TrimLeft(s) == IF s # << >> /\ Head(s).t = "ws" THEN TrimLeft(Tail(s)) ELSE s

RECURSIVE TrimRight(_)
TrimRight(s) ==
    IF s # << >> /\ s[Len(s)].t = "ws" THEN TrimRight(SubSeq(s, 1, Len(s) - 1)) ELSE s

\* QString::trimmed
Trimmed(s) == TrimRight(TrimLeft(s))

StartsWith(s, t) == s # << >> /\ s[1].t = t
EndsWith(s, t) == s # << >> /\ s[Len(s)].t = t

\* Script values: a string, a number, an array (items) or an invalid/error value.
SVal(t, v, items) == [t |-> t, v |-> v, items |-> items]
SInvalid == SVal("invalid", "", << >>)

ParseFail == [ok |-> FALSE, val |-> SInvalid, rest |-> << >>]

\* QScriptEngine::evaluate on the token sequence: a value is a string, a number or
\* an array literal of values; whitespace between tokens is ignored.
RECURSIVE ParseValue(_), ParseItems(_, _)
ParseValue(s) ==
    IF s = << >> THEN ParseFail
    ELSE CASE s[1].t = "str" -> [ok |-> TRUE, val |-> SVal("str", s[1].v, << >>), rest |-> Tail(s)]
           [] s[1].t = "num" -> [ok |-> TRUE, val |-> SVal("num", s[1].v, << >>), rest |-> Tail(s)]
           [] s[1].t = "["   ->
                IF Len(s) >= 2 /\ s[2].t = "]"
                THEN [ok |-> TRUE, val |-> SVal("arr", "", << >>), rest |-> SubSeq(s, 3, Len(s))]
                ELSE ParseItems(Tail(s), << >>)
           [] OTHER -> ParseFail

ParseItems(s, acc) ==
    LET r == ParseValue(s)
    IN  IF ~r.ok \/ r.rest = << >> THEN ParseFail
        ELSE CASE r.rest[1].t = "," -> ParseItems(Tail(r.rest), Append(acc, r.val))
               [] r.rest[1].t = "]" ->
                    [ok |-> TRUE, val |-> SVal("arr", "", Append(acc, r.val)), rest |-> Tail(r.rest)]
               [] OTHER -> ParseFail

NoWs(s) == SelectSeq(s, LAMBDA x : x.t # "ws")

\* The program is an expression statement; semicolons may end it.
Evaluate(response) ==
    LET r == ParseValue(NoWs(response))
    IN  IF r.ok /\ (\A i \in 1..Len(r.rest) : r.rest[i].t = ";") THEN r.val ELSE SInvalid

\* QScriptValue::property(arrayIndex)
Property(val, i) ==
    IF val.t = "arr" /\ i + 1 <= Len(val.items) THEN val.items[i + 1] ELSE SInvalid

IsArray(val) == val.t = "arr"

\* QScriptValue::toString, used by qscriptvalue_cast<QString>.
RECURSIVE ValueToString(_), JoinValues(_)
ValueToString(val) ==
    CASE val.t = "str" -> Str(val.v)
      [] val.t = "num" -> Str(val.v)
      [] val.t = "arr" -> JoinValues(val.items)
      [] OTHER -> Empty

JoinValues(items) ==
    IF items = << >> THEN Empty
    ELSE IF Len(items) = 1 THEN ValueToString(items[1])
    ELSE ValueToString(items[1]) \o Str(",") \o JoinValues(Tail(items))

\* The conversion with the elements in reverse order
ValueToSequence_Reversed(val) ==
    [i \in 1..Len(val.items) |-> ValueToString(val.items[Len(val.items) + 1 - i])]

\* qScriptValueToSequence(value, QStringList)
ValueToSequence(val) == [i \in 1..Len(val.items) |-> ValueToString(val.items[i])]

(***************************************************************************)
(* Suggestion client.  A client state c is [d, replies, signals, crashed].  *)
(***************************************************************************)
MaxRequests == 2

Terms == {Empty, Str("q1"), Str("q2")}

\* A reply object.  got is the body the transport completed it with; body is
\* what readAll() has not taken yet.
NewReply(term, request) ==
    [ term |-> term, op |-> request.operation, url |-> request.url,
      data |-> request.data, state |-> "running", connected |-> FALSE,
      got |-> << >>, body |-> << >>, closed |-> FALSE,
      deleteLater |-> FALSE, deleted |-> FALSE ]

\* What is left of a reply once the event loop has destroyed it: how it ended.
DeletedReply(rep) ==
    [ term |-> Empty, op |-> "none", url |-> NoUrl, data |-> << >>,
      state |-> rep.state, connected |-> FALSE,
      got |-> << >>, body |-> << >>, closed |-> TRUE,
      deleteLater |-> TRUE, deleted |-> TRUE ]

\* The slot without the check of the brackets.
suggestionsObtained_NoBracketCheck(c, sender) ==
    LET cur == c.d.suggestionsReply
    IN  IF cur = NullReply
        THEN [c EXCEPT !.crashed = TRUE]
        ELSE
          LET body == c.replies[cur].body
              response == Trimmed(body)
              c1 == [c EXCEPT !.replies[cur].body = << >>,
                              !.replies[cur].closed = TRUE,
                              !.replies[cur].deleteLater = TRUE,
                              !.d.suggestionsReply = NullReply]
              responseParts == Evaluate(response)
          IN  IF IsEmpty(response) THEN c1
              ELSE IF ~IsArray(Property(responseParts, 1)) THEN c1
              ELSE [c1 EXCEPT !.signals =
                       Append(@, [sender |-> sender, from |-> cur, body |-> body,
                                  list |-> ValueToSequence(Property(responseParts, 1))])]

\* The slot returning on a dropped body before it lets go of the reply.
suggestionsObtained_KeepOnDrop(c, sender) ==
    LET cur == c.d.suggestionsReply
    IN  IF cur = NullReply
        THEN [c EXCEPT !.crashed = TRUE]
        ELSE
          LET body == c.replies[cur].body
              response == Trimmed(body)
              c0 == [c EXCEPT !.replies[cur].body = << >>]
              c1 == [c0 EXCEPT !.replies[cur].closed = TRUE,
                               !.replies[cur].deleteLater = TRUE,
                               !.d.suggestionsReply = NullReply]
              responseParts == Evaluate(response)
          IN  IF IsEmpty(response) THEN c0
              ELSE IF ~StartsWith(response, "[") \/ ~EndsWith(response, "]") THEN c0
              ELSE IF ~IsArray(Property(responseParts, 1)) THEN c0
              ELSE [c1 EXCEPT !.signals =
                       Append(@, [sender |-> sender, from |-> cur, body |-> body,
                                  list |-> ValueToSequence(Property(responseParts, 1))])]

\* The slot with the signal emitted a second time.
suggestionsObtained_EmitTwice(c, sender) ==
    LET cur == c.d.suggestionsReply
    IN  IF cur = NullReply
        THEN [c EXCEPT !.crashed = TRUE]
        ELSE
          LET body == c.replies[cur].body
              response == Trimmed(body)
              c1 == [c EXCEPT !.replies[cur].body = << >>,
                              !.replies[cur].closed = TRUE,
                              !.replies[cur].deleteLater = TRUE,
                              !.d.suggestionsReply = NullReply]
              responseParts == Evaluate(response)
              sig == [sender |-> sender, from |-> cur, body |-> body,
                      list |-> ValueToSequence(Property(responseParts, 1))]
          IN  IF IsEmpty(response) THEN c1
              ELSE IF ~StartsWith(response, "[") \/ ~EndsWith(response, "]") THEN c1
              ELSE IF ~IsArray(Property(responseParts, 1)) THEN c1
              ELSE [c1 EXCEPT !.signals = Append(Append(@, sig), sig)]

\* OpenSearchEngine::suggestionsObtained, run on a client state; sender is the
\* reply whose finished() invoked the slot.
suggestionsObtained(c, sender) ==
    LET cur == c.d.suggestionsReply
    IN  IF cur = NullReply
        THEN [c EXCEPT !.crashed = TRUE]
        ELSE
          LET body == c.replies[cur].body
              response == Trimmed(body)
              \* readAll() drains the reply's buffer
              c1 == [c EXCEPT !.replies[cur].body = << >>,
                              !.replies[cur].closed = TRUE,
                              !.replies[cur].deleteLater = TRUE,
                              !.d.suggestionsReply = NullReply]
              responseParts == Evaluate(response)
          IN  IF IsEmpty(response) THEN c1
              ELSE IF ~StartsWith(response, "[") \/ ~EndsWith(response, "]") THEN c1
              ELSE IF ~IsArray(Property(responseParts, 1)) THEN c1
              ELSE [c1 EXCEPT !.signals =
                       Append(@, [sender |-> sender, from |-> cur, body |-> body,
                                  list |-> ValueToSequence(Property(responseParts, 1))])]

\* The reply emits finished(): the slot runs at once when it is connected.
EmitFinished(c, r) ==
    IF c.replies[r].connected THEN suggestionsObtained(c, r) ELSE c

\* A call through d->suggestionsReply kills the process when the pointer is null.
NullDeref(c) == c.crashed \/ c.d.suggestionsReply = NullReply

Crash(c) == [c EXCEPT !.crashed = TRUE]

\* d->suggestionsReply->disconnect(this)
Disconnect(c) ==
    IF NullDeref(c) THEN Crash(c)
    ELSE [c EXCEPT !.replies[c.d.suggestionsReply].connected = FALSE]

\* d->suggestionsReply->abort(): a running reply stops and emits finished().
Abort(c) ==
    IF NullDeref(c) THEN Crash(c)
    ELSE LET r == c.d.suggestionsReply
         IN  IF c.replies[r].state = "running"
             THEN EmitFinished([c EXCEPT !.replies[r].state = "aborted"], r)
             ELSE c

\* d->suggestionsReply->deleteLater()
DeleteLater(c) ==
    IF NullDeref(c) THEN Crash(c)
    ELSE [c EXCEPT !.replies[c.d.suggestionsReply].deleteLater = TRUE]

\* The cancellation with the pointer only forgotten.
CancelCurrent_Forget(c) == [c EXCEPT !.d.suggestionsReply = NullReply]

\* The cancellation left out.
CancelCurrent_NoCancel(c) == c

\* The cancellation without the disconnect: abort() runs the slot.
CancelCurrent_NoDisconnect(c) ==
    IF c.d.suggestionsReply = NullReply THEN c
    ELSE LET c3 == DeleteLater(Abort(c))
         IN  IF c3.crashed THEN c3 ELSE [c3 EXCEPT !.d.suggestionsReply = NullReply]

\* Lines 1039-1044: the request in flight is detached, aborted and forgotten.
CancelCurrent(c) ==
    IF c.d.suggestionsReply = NullReply THEN c
    ELSE LET c3 == DeleteLater(Abort(Disconnect(c)))
         IN  IF c3.crashed THEN c3 ELSE [c3 EXCEPT !.d.suggestionsReply = NullReply]

\* The request handed to the transport but finished() never connected.
StartRequest_NoConnect(c, searchTerm) ==
    LET id == Len(c.replies) + 1
        request == suggestionsRequest(c.d, searchTerm)
    IN  [c EXCEPT !.replies = Append(@, NewReply(searchTerm, request)),
                  !.d.suggestionsReply = id]

\* Lines 1046-1060: the request is handed to the transport and connected.
StartRequest(c, searchTerm) ==
    LET id == Len(c.replies) + 1
        request == suggestionsRequest(c.d, searchTerm)
        c1 == [c EXCEPT !.replies = Append(@, NewReply(searchTerm, request)),
                        !.d.suggestionsReply = id]
    IN  [c1 EXCEPT !.replies[id].connected = TRUE]

\* The call with the expanded URL written back into the stored template.
requestSuggestions_StoresUrl(c, searchTerm, debugBuild) ==
    IF IsEmpty(searchTerm) \/ ~providesSuggestions(c.d) THEN c
    ELSE IF ~c.d.networkAccessManager
         THEN (IF debugBuild THEN [c EXCEPT !.crashed = TRUE] ELSE c)
    ELSE LET c1 == CancelCurrent(c)
             c2 == [c1 EXCEPT !.d.suggestionsUrlTemplate =
                                  suggestionsUrl(c.d, searchTerm).encoded]
         IN  IF c1.crashed THEN c1 ELSE StartRequest(c2, searchTerm)

\* debugBuild: Q_ASSERT is compiled in.
requestSuggestions(c, searchTerm, debugBuild) ==
    IF IsEmpty(searchTerm) \/ ~providesSuggestions(c.d) THEN c
    ELSE IF ~c.d.networkAccessManager
         THEN (IF debugBuild THEN [c EXCEPT !.crashed = TRUE] ELSE c)
    ELSE LET c1 == CancelCurrent(c)
         IN  IF c1.crashed THEN c1 ELSE StartRequest(c1, searchTerm)

\* The engine has not been destroyed: the destructor is the last call on it.
Alive == call.op # "~OpenSearchEngine"

Client == [d |-> d, replies |-> replies, signals |-> signals, crashed |-> crashed]

SetClient(c) ==
    /\ d' = c.d
    /\ replies' = c.replies
    /\ signals' = c.signals
    /\ crashed' = c.crashed

\* Would this call hand a request to the transport?
Starts(searchTerm) ==
    ~IsEmpty(searchTerm) /\ providesSuggestions(d) /\ d.networkAccessManager

RequestSuggestions ==
    /\ ~crashed
    /\ Alive
    /\ \E searchTerm \in Terms, debugBuild \in BOOLEAN :
          /\ Starts(searchTerm) => Len(replies) < MaxRequests
          /\ SetClient(requestSuggestions(Client, searchTerm, debugBuild))
    /\ UNCHANGED readerVars
    /\ UNCHANGED apiVars

\* The transport completes a running reply with some body.
ReplyFinished ==
    /\ ~crashed
    /\ \E r \in 1..Len(replies), body \in Bodies :
          /\ replies[r].state = "running"
          /\ ~replies[r].deleted
          /\ SetClient(EmitFinished(
                 [Client EXCEPT !.replies[r].state = "finished",
                                !.replies[r].got = body,
                                !.replies[r].body = body], r))
    /\ UNCHANGED readerVars
    /\ UNCHANGED apiVars

\* Back in the event loop, a reply marked by deleteLater() is destroyed.
DeferredDelete ==
    /\ ~crashed
    /\ \E r \in 1..Len(replies) :
          /\ replies[r].deleteLater
          /\ ~replies[r].deleted
          /\ replies' = [replies EXCEPT ![r] = DeletedReply(replies[r])]
    /\ UNCHANGED <<d, signals, crashed>>
    /\ UNCHANGED readerVars
    /\ UNCHANGED apiVars

\* Lines 653-661 and QObject::~QObject(): the engine's connections are removed
\* with it; the reply is a child of the network access manager and lives on.
Destroy ==
    /\ ~crashed
    /\ Alive
    /\ replies' = [r \in 1..Len(replies) |-> [replies[r] EXCEPT !.connected = FALSE]]
    /\ call' = [op |-> "~OpenSearchEngine", arg |-> Empty, term |-> Empty]
    /\ ret' = NoUrl
    /\ UNCHANGED <<d, signals, crashed>>
    /\ UNCHANGED readerVars

SuggestionTemplates == {Empty, <<"http://s/?q=", "{searchTerms}">>}

\* A call of a setter or of a URL function is recorded with what it returned.
Record(op, arg, term, result) ==
    /\ call' = [op |-> op, arg |-> arg, term |-> term]
    /\ ret' = result

\* The setters the suggestion client is driven with are not recorded: the
\* last recorded call no longer describes the engine.
Forget ==
    /\ call' = NoCall
    /\ ret' = NoUrl

SetSuggestionsUrlTemplate ==
    /\ ~crashed
    /\ Alive
    /\ \E t \in SuggestionTemplates :
          /\ d' = [d EXCEPT !.suggestionsUrlTemplate = t]
          /\ Forget
    /\ UNCHANGED <<replies, signals, crashed>>
    /\ UNCHANGED readerVars

SetNetworkAccessManager ==
    /\ ~crashed
    /\ Alive
    /\ \E m \in BOOLEAN :
          /\ d' = [d EXCEPT !.networkAccessManager = m]
          /\ Forget
    /\ UNCHANGED <<replies, signals, crashed>>
    /\ UNCHANGED readerVars

MethodStrings == {Empty, Str("get"), Str("POST"), Str("Post"), Str("put")}

SetSuggestionsMethod ==
    /\ ~crashed
    /\ Alive
    /\ \E m \in MethodStrings :
          /\ d' = setSuggestionsMethod(d, m)
          /\ Forget
    /\ UNCHANGED <<replies, signals, crashed>>
    /\ UNCHANGED readerVars

(***************************************************************************)
(* The other setters and the URL functions, called on the engine d          *)
(***************************************************************************)
Names == {Empty, Str("n1")}
Texts == {Empty, Str("x")}
SearchTemplates == {Empty, <<"http://a/?q=", "{searchTerms}", "&n=", "{count}">>}
ParameterLists ==
    { << >>,
      << <<Str("k1"), <<"{searchTerms}">> >>, <<Str("k2"), <<"a b", "{language}">> >> >> }
TagLists == {<< >>, <<Str("web")>>}
UrlTerms == {Empty, Str("q1"), Str("a b"), Str("{count}")}

\* A setter that stores its argument: the engine after it, recorded.
Store(op, arg, e) ==
    /\ ~crashed
    /\ Alive
    /\ d' = e
    /\ Record(op, arg, Empty, NoUrl)
    /\ UNCHANGED <<replies, signals, crashed>>
    /\ UNCHANGED readerVars

SetName == \E x \in Names : Store("setName", x, [d EXCEPT !.name = x])

SetDescription ==
    \E x \in Texts : Store("setDescription", x, [d EXCEPT !.description = x])

SetSearchUrlTemplate ==
    \E x \in SearchTemplates :
        Store("setSearchUrlTemplate", x, [d EXCEPT !.searchUrlTemplate = x])

SetSearchParameters ==
    \E x \in ParameterLists :
        Store("setSearchParameters", Empty, [d EXCEPT !.searchParameters = x])

SetSuggestionsParameters ==
    \E x \in ParameterLists :
        Store("setSuggestionsParameters", Empty, [d EXCEPT !.suggestionsParameters = x])

SetSearchMethod ==
    \E m \in MethodStrings : Store("setSearchMethod", m, setSearchMethod(d, m))

SetImageUrl == \E x \in Texts : Store("setImageUrl", x, [d EXCEPT !.imageUrl = x])

SetTags == \E x \in TagLists : Store("setTags", Empty, [d EXCEPT !.tags = x])

SetDelegate == \E x \in BOOLEAN : Store("setDelegate", Empty, [d EXCEPT !.delegate = x])

SearchUrl ==
    /\ ~crashed
    /\ Alive
    /\ \E searchTerm \in UrlTerms :
          Record("searchUrl", Empty, searchTerm, searchUrl(d, searchTerm))
    /\ UNCHANGED clientVars
    /\ UNCHANGED readerVars

SuggestionsUrl ==
    /\ ~crashed
    /\ Alive
    /\ \E searchTerm \in UrlTerms :
          Record("suggestionsUrl", Empty, searchTerm, suggestionsUrl(d, searchTerm))
    /\ UNCHANGED clientVars
    /\ UNCHANGED readerVars

\* The comparison with the methods and the tags compared as well.
operatorEquals_AllFields(e, other) == e = other

\* Lines 1003-1012: operator==
operatorEquals(e, other) ==
    /\ e.name = other.name
    /\ e.description = other.description
    /\ e.imageUrl = other.imageUrl
    /\ e.searchUrlTemplate = other.searchUrlTemplate
    /\ e.suggestionsUrlTemplate = other.suggestionsUrlTemplate
    /\ e.searchParameters = other.searchParameters
    /\ e.suggestionsParameters = other.suggestionsParameters

\* The engines the setters can build.
Engines ==
    { [OpenSearchEnginePrivate EXCEPT
          !.name = n, !.tags = tg,
          !.searchUrlTemplate = st, !.suggestionsUrlTemplate = ut,
          !.searchParameters = sp, !.suggestionsParameters = up,
          !.searchMethod = sm, !.suggestionsMethod = um] :
        n \in Names, tg \in TagLists,
        st \in SearchTemplates, ut \in SuggestionTemplates,
        sp \in ParameterLists, up \in ParameterLists,
        sm \in RequestMethods, um \in RequestMethods }

EngineFields ==
    << "name", "description", "imageUrl", "tags", "searchUrlTemplate",
       "suggestionsUrlTemplate", "searchParameters", "suggestionsParameters",
       "searchMethod", "suggestionsMethod" >>

\* The values a setter can give a field.
FieldValues(f) ==
    CASE f = "name" -> Names
      [] f \in {"description", "imageUrl"} -> Texts
      [] f = "tags" -> TagLists
      [] f = "searchUrlTemplate" -> SearchTemplates
      [] f = "suggestionsUrlTemplate" -> SuggestionTemplates
      [] f \in {"searchParameters", "suggestionsParameters"} -> ParameterLists
      [] OTHER -> RequestMethods

\* The engine compared with another that differs from it in at most two fields.
Equals ==
    /\ ~crashed
    /\ Alive
    /\ \E i \in 1..Len(EngineFields), j \in 1..Len(EngineFields) :
        \E v1 \in FieldValues(EngineFields[i]), v2 \in FieldValues(EngineFields[j]) :
          LET other == [d EXCEPT ![EngineFields[i]] = v1, ![EngineFields[j]] = v2]
          IN  /\ i < j
              /\ Record("operator==", Empty, Empty,
                        [other |-> other, equal |-> operatorEquals(d, other)])
    /\ UNCHANGED clientVars
    /\ UNCHANGED readerVars

\* parseTemplate is a static function: called on any text and any term.
MaxTemplateLen == 2

TemplateSyms ==
    { "http://a/?q=", "{searchTerms}", "{count}", "{startIndex}", "{startPage}",
      "{language}", "{inputEncoding}", "{outputEncoding}", "{source}",
      "{source?}", "{ns:source}", "{ns:source?}", "{unknown}", "{searchTerms?}" }

TemplateTexts == UNION {[1..n -> TemplateSyms] : n \in 0..MaxTemplateLen}

ParseTemplate ==
    /\ ~crashed
    /\ \E searchTerm \in UrlTerms, searchTemplate \in TemplateTexts :
          Record("parseTemplate", searchTemplate, searchTerm,
                 [text |-> parseTemplate(searchTerm, searchTemplate)])
    /\ UNCHANGED clientVars
    /\ UNCHANGED readerVars

\* The performer stands outside: what it was called with is what is recorded.
RequestSearchResults ==
    /\ ~crashed
    /\ Alive
    /\ \E searchTerm \in UrlTerms :
          Record("requestSearchResults", Empty, searchTerm,
                 [performed |-> requestSearchResults(d, searchTerm)])
    /\ UNCHANGED clientVars
    /\ UNCHANGED readerVars

(***************************************************************************)
(* The XML token stream.  The device holds the tokens of a document, or of  *)
(* a document cut short: k is "S" (StartElement), "E" (EndElement) or "C"   *)
(* (Characters; before the root element it stands for a comment).           *)
(***************************************************************************)
NoAttrs == [type |-> Empty, template |-> Empty, method |-> Empty,
            name |-> Empty, value |-> Empty]

OpenSearchNs == Str("http://a9.com/-/spec/opensearch/1.1/")

StartTok(n, ns, at) == [k |-> "S", n |-> n, ns |-> ns, at |-> at, t |-> Empty]
EndTok == [k |-> "E", n |-> "", ns |-> Empty, at |-> NoAttrs, t |-> Empty]
CharsTok(t) == [k |-> "C", n |-> "", ns |-> Empty, at |-> NoAttrs, t |-> t]

Elem(n) == StartTok(n, OpenSearchNs, NoAttrs)

UrlTok(type, template, method) ==
    StartTok("Url", OpenSearchNs,
             [NoAttrs EXCEPT !.type = type, !.template = template, !.method = method])

ParamTok(n, name, value) ==
    StartTok(n, OpenSearchNs, [NoAttrs EXCEPT !.name = name, !.value = value])

\* The reader: the cursor (0 before the first token, Len(dev) + 1 on
\* EndDocument), the error state, m_engine (the engine it points to; null
\* before the first read), the number of engines it has constructed, and the
\* positions of the elements the loop of readDocument has dispatched on.
NewReader == [pos |-> 0, err |-> "NoError", m_engine |-> OpenSearchEnginePrivate,
              null |-> TRUE, created |-> 0, disp |-> {}]

\* QXmlStreamReader::tokenType
Kind(dev, r) ==
    IF r.err # "NoError" THEN "Invalid"
    ELSE IF r.pos = 0 THEN "NoToken"
    ELSE IF r.pos > Len(dev) THEN "EndDocument"
    ELSE dev[r.pos].k

isStartElement(dev, r) == Kind(dev, r) = "S"
isEndElement(dev, r) == Kind(dev, r) = "E"
atEnd(dev, r) == Kind(dev, r) \in {"Invalid", "EndDocument"}

\* name(), namespaceUri(), attributes(): empty unless on an element
name(dev, r) == IF Kind(dev, r) = "S" THEN dev[r.pos].n ELSE ""
namespaceUri(dev, r) == IF Kind(dev, r) = "S" THEN dev[r.pos].ns ELSE Empty
attributes(dev, r) == IF Kind(dev, r) = "S" THEN dev[r.pos].at ELSE NoAttrs

\* Open elements after the first n tokens.
RECURSIVE Depth(_, _)
Depth(dev, n) ==
    IF n = 0 THEN 0
    ELSE Depth(dev, n - 1) + (CASE dev[n].k = "S" -> 1 [] dev[n].k = "E" -> -1 [] OTHER -> 0)

HasStart(dev) == \E i \in 1..Len(dev) : dev[i].k = "S"

\* The device holds a whole document: its root element has been closed.
Complete(dev) == HasStart(dev) /\ Depth(dev, Len(dev)) = 0

raiseError(r, e) == [r EXCEPT !.err = e]

\* QXmlStreamReader::readNext: the next token, EndDocument after a whole
\* document, and a PrematureEndOfDocumentError when the input stops early.
readNext(dev, r) ==
    IF r.err # "NoError" \/ r.pos > Len(dev) THEN r
    ELSE IF r.pos < Len(dev) THEN [r EXCEPT !.pos = r.pos + 1]
    ELSE IF Complete(dev) THEN [r EXCEPT !.pos = Len(dev) + 1]
    ELSE raiseError(r, "PrematureEndOfDocumentError")

\* QXmlStreamReader::readElementText: the text up to the EndElement; anything
\* but Characters before it raises UnexpectedElementError and returns the text
\* read so far.
RECURSIVE readElementTextFrom(_, _, _)
readElementTextFrom(dev, r, acc) ==
    LET r1 == readNext(dev, r)
        k == Kind(dev, r1)
    IN  CASE k = "C" -> readElementTextFrom(dev, r1, acc \o dev[r1.pos].t)
          [] k = "E" -> [r |-> r1, text |-> acc]
          [] OTHER   -> [r |-> IF r1.err = "NoError"
                               THEN raiseError(r1, "UnexpectedElementError")
                               ELSE r1,
                         text |-> acc]

readElementText(dev, r) == readElementTextFrom(dev, r, Empty)

\* QString::split(' ', QString::SkipEmptyParts)
RECURSIVE SplitFrom(_, _, _)
SplitFrom(s, cur, acc) ==
    IF s = << >> THEN (IF cur = << >> THEN acc ELSE Append(acc, cur))
    ELSE IF Head(s) = " "
         THEN SplitFrom(Tail(s), << >>, IF cur = << >> THEN acc ELSE Append(acc, cur))
         ELSE SplitFrom(Tail(s), Append(cur, Head(s)), acc)

\* The split with the empty parts kept.
RECURSIVE SplitKeepFrom(_, _, _)
SplitKeepFrom(s, cur, acc) ==
    IF s = << >> THEN Append(acc, cur)
    ELSE IF Head(s) = " "
         THEN SplitKeepFrom(Tail(s), << >>, Append(acc, cur))
         ELSE SplitKeepFrom(Tail(s), Append(cur, Head(s)), acc)

SplitSkipEmpty_KeepEmpty(s) == SplitKeepFrom(s, << >>, << >>)

SplitSkipEmpty(s) == SplitFrom(s, << >>, << >>)

(***************************************************************************)
(* OpenSearchReader's element handlers, each on a reader r over device dev  *)
(***************************************************************************)
RECURSIVE skipSubtree(_, _)
skipSubtree(dev, r) ==
    IF atEnd(dev, r) THEN r
    ELSE LET r1 == readNext(dev, r)
         IN  IF isEndElement(dev, r1) THEN r1
             ELSE IF isStartElement(dev, r1) THEN skipSubtree(dev, skipSubtree(dev, r1))
             ELSE skipSubtree(dev, r1)

readName(dev, r) ==
    LET x == readElementText(dev, r)
    IN  [x.r EXCEPT !.m_engine.name = x.text]

readDescription(dev, r) ==
    LET x == readElementText(dev, r)
    IN  [x.r EXCEPT !.m_engine.description = x.text]

readImage(dev, r) ==
    LET x == readElementText(dev, r)
    IN  [x.r EXCEPT !.m_engine.imageUrl = x.text]

readTags(dev, r) ==
    LET x == readElementText(dev, r)
    IN  [x.r EXCEPT !.m_engine.tags = SplitSkipEmpty(x.text)]

\* readParameter: returns the reader and the parameter list.
readParameter(dev, r, parameters) ==
    LET key == attributes(dev, r).name
        value == attributes(dev, r).value
    IN  IF IsEmpty(key) \/ IsEmpty(value)
        THEN [r |-> r, parameters |-> parameters]
        ELSE [r |-> readNext(dev, r), parameters |-> Append(parameters, <<key, value>>)]

\* The child loop of readUrl, lines 164-177.
RECURSIVE readUrlChildren(_, _, _)
readUrlChildren(dev, r, parameters) ==
    IF atEnd(dev, r) THEN [r |-> r, parameters |-> parameters]
    ELSE LET r1 == readNext(dev, r)
         IN  IF isEndElement(dev, r1) THEN [r |-> r1, parameters |-> parameters]
             ELSE IF ~isStartElement(dev, r1) THEN readUrlChildren(dev, r1, parameters)
             ELSE IF name(dev, r1) \in {"Param", "Parameter"}
                  THEN LET x == readParameter(dev, r1, parameters)
                       IN  readUrlChildren(dev, x.r, x.parameters)
                  ELSE readUrlChildren(dev, skipSubtree(dev, r1), parameters)

TextHtml == Str("text/html")
XhtmlXml == Str("application/xhtml+xml")
SuggestionsJson == Str("application/x-suggestions+json")

\* readUrl storing the method of a Url it skips because the slot is filled
readUrl_MethodOfSkipped(dev, r) ==
    LET at == attributes(dev, r)
        type == IF IsEmpty(at.type) \/ at.type = XhtmlXml THEN TextHtml ELSE at.type
        url == at.template
        method == at.method
    IN  IF IsEmpty(url) THEN skipSubtree(dev, r)
        ELSE IF type = SuggestionsJson /\ ~IsEmpty(r.m_engine.suggestionsUrlTemplate)
             THEN skipSubtree(dev, [r EXCEPT !.m_engine = setSuggestionsMethod(@, method)])
        ELSE IF type = TextHtml /\ ~IsEmpty(r.m_engine.searchUrlTemplate)
             THEN skipSubtree(dev, [r EXCEPT !.m_engine = setSearchMethod(@, method)])
        ELSE LET x == readUrlChildren(dev, r, << >>)
             IN  IF type = SuggestionsJson
                 THEN [x.r EXCEPT !.m_engine =
                          setSuggestionsMethod(
                              [@ EXCEPT !.suggestionsUrlTemplate = url,
                                        !.suggestionsParameters = x.parameters],
                              method)]
                 ELSE IF type = TextHtml
                 THEN [x.r EXCEPT !.m_engine =
                          setSearchMethod(
                              [@ EXCEPT !.searchUrlTemplate = url,
                                        !.searchParameters = x.parameters],
                              method)]
                 ELSE x.r

\* readUrl without the check of the template.
readUrl_NoTemplateCheck(dev, r) ==
    LET at == attributes(dev, r)
        type == IF IsEmpty(at.type) \/ at.type = XhtmlXml THEN TextHtml ELSE at.type
        url == at.template
        method == at.method
    IN  IF type = SuggestionsJson /\ ~IsEmpty(r.m_engine.suggestionsUrlTemplate)
             THEN skipSubtree(dev, r)
        ELSE IF type = TextHtml /\ ~IsEmpty(r.m_engine.searchUrlTemplate)
             THEN skipSubtree(dev, r)
        ELSE LET x == readUrlChildren(dev, r, << >>)
             IN  IF type = SuggestionsJson
                 THEN [x.r EXCEPT !.m_engine =
                          setSuggestionsMethod(
                              [@ EXCEPT !.suggestionsUrlTemplate = url,
                                        !.suggestionsParameters = x.parameters],
                              method)]
                 ELSE IF type = TextHtml
                 THEN [x.r EXCEPT !.m_engine =
                          setSearchMethod(
                              [@ EXCEPT !.searchUrlTemplate = url,
                                        !.searchParameters = x.parameters],
                              method)]
                 ELSE x.r

\* readUrl with the type taken as it is written.
readUrl_NoTypeDefault(dev, r) ==
    LET at == attributes(dev, r)
        type == at.type
        url == at.template
        method == at.method
    IN  IF IsEmpty(url) THEN skipSubtree(dev, r)
        ELSE IF type = SuggestionsJson /\ ~IsEmpty(r.m_engine.suggestionsUrlTemplate)
             THEN skipSubtree(dev, r)
        ELSE IF type = TextHtml /\ ~IsEmpty(r.m_engine.searchUrlTemplate)
             THEN skipSubtree(dev, r)
        ELSE LET x == readUrlChildren(dev, r, << >>)
             IN  IF type = SuggestionsJson
                 THEN [x.r EXCEPT !.m_engine =
                          setSuggestionsMethod(
                              [@ EXCEPT !.suggestionsUrlTemplate = url,
                                        !.suggestionsParameters = x.parameters],
                              method)]
                 ELSE IF type = TextHtml
                 THEN [x.r EXCEPT !.m_engine =
                          setSearchMethod(
                              [@ EXCEPT !.searchUrlTemplate = url,
                                        !.searchParameters = x.parameters],
                              method)]
                 ELSE x.r

readUrl(dev, r) ==
    LET at == attributes(dev, r)
        type == IF IsEmpty(at.type) \/ at.type = XhtmlXml THEN TextHtml ELSE at.type
        url == at.template
        method == at.method
    IN  IF IsEmpty(url) THEN skipSubtree(dev, r)
        ELSE IF type = SuggestionsJson /\ ~IsEmpty(r.m_engine.suggestionsUrlTemplate)
             THEN skipSubtree(dev, r)
        ELSE IF type = TextHtml /\ ~IsEmpty(r.m_engine.searchUrlTemplate)
             THEN skipSubtree(dev, r)
        ELSE LET x == readUrlChildren(dev, r, << >>)
             IN  IF type = SuggestionsJson
                 THEN [x.r EXCEPT !.m_engine =
                          setSuggestionsMethod(
                              [@ EXCEPT !.suggestionsUrlTemplate = url,
                                        !.suggestionsParameters = x.parameters],
                              method)]
                 ELSE IF type = TextHtml
                 THEN [x.r EXCEPT !.m_engine =
                          setSearchMethod(
                              [@ EXCEPT !.searchUrlTemplate = url,
                                        !.searchParameters = x.parameters],
                              method)]
                 ELSE x.r

\* Lines 89-90: on to the first StartElement.
RECURSIVE findStart(_, _)
findStart(dev, r) ==
    IF ~isStartElement(dev, r) /\ ~atEnd(dev, r) THEN findStart(dev, readNext(dev, r)) ELSE r

\* QXmlStreamReader::clear: back before the first token, no error
clear(r) == [r EXCEPT !.pos = 0, !.err = "NoError"]

\* read() without the call of clear()
readReset_NoClear(r) == [r EXCEPT !.null = TRUE, !.disp = {}]

\* Lines 72-78 of read(): m_engine = 0; clear(); setDevice(device)
readReset(r) == clear([r EXCEPT !.null = TRUE, !.disp = {}])

\* Line 87: m_engine = new OpenSearchEngine()
newEngine(r) ==
    [r EXCEPT !.m_engine = OpenSearchEnginePrivate, !.null = FALSE,
              !.created = r.created + 1]

\* The root check on the element name alone
isOpenSearchRoot_NameOnly(dev, r) == name(dev, r) = "OpenSearchDescription"

\* Lines 92-93: the root check
isOpenSearchRoot(dev, r) ==
    ~(name(dev, r) # "OpenSearchDescription" \/ namespaceUri(dev, r) # OpenSearchNs)

\* read() up to the root check of readDocument (lines 72-96): the reader and
\* whether readDocument goes on to its loop.
readBegin(dev, r) ==
    LET r1 == findStart(dev, newEngine(readReset(r)))
    IN  IF ~isOpenSearchRoot(dev, r1)
        THEN [r |-> raiseError(r1, "CustomError"), loop |-> FALSE]
        ELSE [r |-> r1, loop |-> TRUE]

\* One pass of the loop of readDocument (lines 98-119): the reader and whether
\* the loop goes on.
\* The loop of readDocument without the check for the end of the input.
loopStep_NoAtEndCheck(dev, r) ==
    IF FALSE THEN [r |-> r, loop |-> FALSE]
    ELSE LET r1 == readNext(dev, r)
             n == name(dev, r1)
         IN  IF isEndElement(dev, r1) THEN [r |-> r1, loop |-> FALSE]
             ELSE IF ~isStartElement(dev, r1) THEN [r |-> r1, loop |-> TRUE]
             ELSE LET r2 == [r1 EXCEPT !.disp = @ \cup {r1.pos}]
                  IN  [r |-> CASE n = "ShortName"   -> readName(dev, r2)
                               [] n = "Description" -> readDescription(dev, r2)
                               [] n = "Url"         -> readUrl(dev, r2)
                               [] n = "Image"       -> readImage(dev, r2)
                               [] n = "Tags"        -> readTags(dev, r2)
                               [] OTHER             -> skipSubtree(dev, r2),
                       loop |-> TRUE]

loopStep(dev, r) ==
    IF atEnd(dev, r) THEN [r |-> r, loop |-> FALSE]
    ELSE LET r1 == readNext(dev, r)
             n == name(dev, r1)
         IN  IF isEndElement(dev, r1) THEN [r |-> r1, loop |-> FALSE]
             ELSE IF ~isStartElement(dev, r1) THEN [r |-> r1, loop |-> TRUE]
             ELSE LET r2 == [r1 EXCEPT !.disp = @ \cup {r1.pos}]
                  IN  [r |-> CASE n = "ShortName"   -> readName(dev, r2)
                               [] n = "Description" -> readDescription(dev, r2)
                               [] n = "Url"         -> readUrl(dev, r2)
                               [] n = "Image"       -> readImage(dev, r2)
                               [] n = "Tags"        -> readTags(dev, r2)
                               [] OTHER             -> skipSubtree(dev, r2),
                       loop |-> TRUE]

(***************************************************************************)
(* The documents                                                            *)
(***************************************************************************)
MaxTokens == 7
MaxDepth == 3
UrlTokens == 10
ReuseTokens == 4
MaxReads == 2
CoreTokens == 8

\* The name of the innermost open element after the first n tokens ("" if none).
RECURSIVE OpenPath(_, _)
OpenPath(dev, n) ==
    IF n = 0 THEN << >>
    ELSE LET p == OpenPath(dev, n - 1)
         IN  CASE dev[n].k = "S" -> Append(p, dev[n].n)
               [] dev[n].k = "E" -> SubSeq(p, 1, Len(p) - 1)
               [] OTHER -> p

RootToks ==
    { Elem("OpenSearchDescription"),
      StartTok("OpenSearchDescription", Str("http://a9.com/-/spec/opensearch/1.0/"), NoAttrs),
      Elem("rss") }

UrlToks ==
    { UrlTok(TextHtml, Str("http://a/"), Str("POST")),
      UrlTok(Empty, Str("http://b/"), Empty),
      UrlTok(XhtmlXml, Str("http://x/"), Str("get")),
      UrlTok(SuggestionsJson, Str("http://c/"), Str("Post")),
      UrlTok(SuggestionsJson, Str("http://d/"), Str("put")),
      UrlTok(TextHtml, Empty, Str("post")),
      UrlTok(Str("application/rss+xml"), Str("http://e/"), Str("post")) }

ParamToks ==
    { ParamTok("Param", Str("k1"), Str("v1")),
      ParamTok("Parameter", Str("k2"), Str("v2")),
      ParamTok("Param", Empty, Str("v1")),
      ParamTok("Param", Str("k1"), Empty) }

TextElems == {"ShortName", "Description", "Image", "Tags"}

TextsOf(n) ==
    CASE n = "ShortName" -> {Str("n1"), Str("n2")}
      [] n = "Tags"      -> {<<"example", " ", "web">>, <<" ", "a", " ", " ">>}
      [] OTHER           -> {Str("x")}

\* Documents of Url and Param elements only, under a valid root.
NextUrlToks(dev) ==
    LET path == OpenPath(dev, Len(dev))
    IN  IF Complete(dev) THEN {}
        ELSE IF path = << >> THEN {Elem("OpenSearchDescription")}
        ELSE IF Len(path) = 1 THEN {EndTok} \cup UrlToks
        ELSE IF Len(path) = 2 THEN {EndTok} \cup ParamToks
        ELSE {EndTok}

\* Documents of ShortName, Url and Param elements only, under a valid root.
NextCoreToks(dev) ==
    LET path == OpenPath(dev, Len(dev))
        top == IF path = << >> THEN "" ELSE path[Len(path)]
    IN  IF Complete(dev) THEN {}
        ELSE IF path = << >> THEN {Elem("OpenSearchDescription")}
        ELSE IF Len(path) = 1 THEN {EndTok, Elem("ShortName")} \cup UrlToks
        ELSE IF top = "Url" THEN {EndTok} \cup ParamToks
        ELSE IF top = "ShortName" /\ dev[Len(dev)].k = "S"
             THEN {EndTok, CharsTok(Str("n1"))}
        ELSE {EndTok}

\* The tokens that may follow the well-formed prefix dev.
NextToks(dev) ==
    LET path == OpenPath(dev, Len(dev))
        top == IF path = << >> THEN "" ELSE path[Len(path)]
        ends == IF path = << >> THEN {} ELSE {EndTok}
        deeper == Len(path) < MaxDepth
    IN  IF Complete(dev) THEN {}
        ELSE IF path = << >> THEN RootToks \cup {CharsTok(Empty)}
        ELSE IF Len(path) = 1
             THEN ends \cup {Elem(n) : n \in TextElems} \cup UrlToks
                       \cup {Elem("Other"), CharsTok(Str(" "))}
        ELSE IF top = "Url"
             THEN ends \cup (IF deeper
                             THEN ParamToks \cup {Elem("Other"), Elem("ShortName")}
                             ELSE {})
                       \cup {CharsTok(Str(" "))}
        ELSE IF top \in TextElems
             THEN ends \cup {CharsTok(t) : t \in TextsOf(top)}
                       \cup (IF deeper THEN {Elem("Other")} ELSE {})
        ELSE IF top \in {"Param", "Parameter"}
             THEN ends \cup {CharsTok(Str("x"))}
        ELSE ends \cup (IF deeper
                        THEN {Elem("ShortName"), Elem("Other"),
                              UrlTok(TextHtml, Str("http://a/"), Str("POST")),
                              ParamTok("Param", Str("k1"), Str("v1"))}
                        ELSE {})
                  \cup {CharsTok(Str("n1"))}

(***************************************************************************)
(* Reader actions                                                           *)
(***************************************************************************)
\* The caller prepares the device, token by token.
Feed ==
    /\ rpc = "idle"
    /\ Len(device) < MaxTokens
    /\ \E tok \in NextToks(device) : device' = Append(device, tok)
    /\ UNCHANGED <<rd, rpc, reads, prev>>
    /\ UNCHANGED clientVars
    /\ UNCHANGED apiVars

FeedUrls ==
    /\ rpc = "idle"
    /\ Len(device) < UrlTokens
    /\ \E tok \in NextUrlToks(device) : device' = Append(device, tok)
    /\ UNCHANGED <<rd, rpc, reads, prev>>
    /\ UNCHANGED clientVars
    /\ UNCHANGED apiVars

FeedCore ==
    /\ rpc = "idle"
    /\ Len(device) < CoreTokens
    /\ \E tok \in NextCoreToks(device) : device' = Append(device, tok)
    /\ UNCHANGED <<rd, rpc, reads, prev>>
    /\ UNCHANGED clientVars
    /\ UNCHANGED apiVars

\* Documents for the reads whose termination is checked.
LiveTokens == 4

FeedLive ==
    /\ rpc = "idle"
    /\ Len(device) < LiveTokens
    /\ \E tok \in NextToks(device) : device' = Append(device, tok)
    /\ UNCHANGED <<rd, rpc, reads, prev>>
    /\ UNCHANGED clientVars
    /\ UNCHANGED apiVars

FeedShort ==
    /\ rpc = "idle"
    /\ Len(device) < ReuseTokens
    /\ \E tok \in NextToks(device) : device' = Append(device, tok)
    /\ UNCHANGED <<rd, rpc, reads, prev>>
    /\ UNCHANGED clientVars
    /\ UNCHANGED apiVars

\* read() has returned; the caller prepares another device for the same reader.
NewDevice ==
    /\ rpc = "done"
    /\ reads < MaxReads
    /\ device' = << >>
    /\ rpc' = "idle"
    /\ prev' = [m_engine |-> rd.m_engine, err |-> rd.err]
    /\ UNCHANGED <<rd, reads>>
    /\ UNCHANGED clientVars
    /\ UNCHANGED apiVars

\* read(device), up to the root check of readDocument
ReadBegin ==
    /\ rpc = "idle"
    /\ LET x == readBegin(device, rd)
       IN  /\ rd' = x.r
           /\ rpc' = IF x.loop THEN "loop" ELSE "done"
    /\ reads' = reads + 1
    /\ UNCHANGED <<device, prev>>
    /\ UNCHANGED clientVars
    /\ UNCHANGED apiVars

\* One pass of the loop of readDocument
ReadLoop ==
    /\ rpc = "loop"
    /\ LET x == loopStep(device, rd)
       IN  /\ rd' = x.r
           /\ rpc' = IF x.loop THEN "loop" ELSE "done"
    /\ UNCHANGED <<device, reads, prev>>
    /\ UNCHANGED clientVars
    /\ UNCHANGED apiVars

ReaderIdle ==
    /\ device = << >>
    /\ rd = NewReader
    /\ rpc = "idle"
    /\ reads = 0
    /\ prev = [m_engine |-> OpenSearchEnginePrivate, err |-> "NoError"]

ClientIdle ==
    /\ d = OpenSearchEnginePrivate
    /\ replies = << >>
    /\ signals = << >>
    /\ crashed = FALSE
    /\ call = NoCall
    /\ ret = NoUrl

InitReader == ReaderIdle /\ ClientIdle

NextReader ==
    \/ Feed
    \/ ReadBegin
    \/ ReadLoop

SpecReader == InitReader /\ [][NextReader]_vars

NextUrls ==
    \/ FeedUrls
    \/ ReadBegin
    \/ ReadLoop

SpecUrls == InitReader /\ [][NextUrls]_vars

NextCore ==
    \/ FeedCore
    \/ ReadBegin
    \/ ReadLoop

SpecCore == InitReader /\ [][NextCore]_vars

NextReuse ==
    \/ FeedShort
    \/ ReadBegin
    \/ ReadLoop
    \/ NewDevice

SpecReuse == InitReader /\ [][NextReuse]_vars

NextLive ==
    \/ FeedLive
    \/ ReadBegin
    \/ ReadLoop

\* read() runs on once called: nothing but its own loop holds it up.
SpecLive == InitReader /\ [][NextLive]_vars /\ WF_vars(ReadLoop)

InitClient == ClientIdle /\ ReaderIdle

NextClient ==
    \/ RequestSuggestions
    \/ ReplyFinished
    \/ DeferredDelete
    \/ SetSuggestionsUrlTemplate
    \/ SetNetworkAccessManager
    \/ SetSuggestionsMethod

SpecClient == InitClient /\ [][NextClient]_vars

NextDestroy ==
    \/ RequestSuggestions
    \/ ReplyFinished
    \/ DeferredDelete
    \/ SetSuggestionsUrlTemplate
    \/ SetNetworkAccessManager
    \/ SetSuggestionsMethod
    \/ Destroy

SpecDestroy == InitClient /\ [][NextDestroy]_vars

NextEngine ==
    \/ SetName
    \/ SetDescription
    \/ SetSearchUrlTemplate
    \/ SetSuggestionsUrlTemplate
    \/ SetSearchParameters
    \/ SetSuggestionsParameters
    \/ SetSearchMethod
    \/ SetSuggestionsMethod
    \/ SetImageUrl
    \/ SetTags
    \/ SetNetworkAccessManager
    \/ SetDelegate
    \/ RequestSearchResults
    \/ SearchUrl
    \/ SuggestionsUrl

SpecEngine == InitClient /\ [][NextEngine]_vars

\* The suggestion client and the search requests of one engine side by side.
NextBoth ==
    \/ RequestSuggestions
    \/ ReplyFinished
    \/ DeferredDelete
    \/ SetSuggestionsUrlTemplate
    \/ SetNetworkAccessManager
    \/ SetSuggestionsMethod
    \/ SetDelegate
    \/ RequestSearchResults

SpecBoth == InitClient /\ [][NextBoth]_vars

NextTemplate == ParseTemplate

InitEquals ==
    /\ d \in Engines
    /\ replies = << >>
    /\ signals = << >>
    /\ crashed = FALSE
    /\ call = NoCall
    /\ ret = NoUrl
    /\ ReaderIdle

NextEquals == Equals

SpecEquals == InitEquals /\ [][NextEquals]_vars

SpecTemplate == InitClient /\ [][NextTemplate]_vars

(***************************************************************************)
(* Claims about the suggestion client (checked under SpecClient)            *)
(***************************************************************************)
ReplyIds == 1..Len(replies)

\* A request is in flight: live in the transport and attached to the slot.
InFlight(r) ==
    /\ replies[r].state = "running"
    /\ ~replies[r].deleted
    /\ replies[r].connected

SignalsOf(S) == SelectSeq(signals, LAMBDA x : x.sender \in S \/ x.from \in S)

\* C1: in every reachable state at most one suggestion request is in flight
\* (running in the transport and connected to suggestionsObtained).
C1_AtMostOneInFlight ==
    \A r1, r2 \in ReplyIds : InFlight(r1) /\ InFlight(r2) => r1 = r2

\* A second request was started while the first was in flight, and is in flight.
C1_Witness ==
    /\ Len(replies) = 2
    /\ replies[1].state = "aborted"
    /\ InFlight(2)

\* C2: a requestSuggestions call that hands a new request to the transport while
\* an earlier one is in flight leaves the earlier one detached and aborted, runs
\* no slot for it and does not crash; and no reply that was aborted is ever the
\* sender or the source of a suggestions notification.
C2_StartStep ==
    \A old \in ReplyIds :
        (Len(replies') = Len(replies) + 1 /\ d.suggestionsReply = old) =>
            /\ ~replies'[old].connected
            /\ replies'[old].state = "aborted"
            /\ replies'[old].deleteLater
            /\ d'.suggestionsReply = Len(replies')
            /\ signals' = signals
            /\ ~crashed'

C2_NoStaleDelivery ==
    \A i \in 1..Len(signals) :
        /\ replies[signals[i].sender].state # "aborted"
        /\ replies[signals[i].from].state # "aborted"

C2_CancelBeforeStart == [][C2_StartStep]_vars /\ []C2_NoStaleDelivery

\* The first request was superseded and the second one has delivered.
C2_Witness ==
    /\ Len(replies) = 2
    /\ replies[1].state = "aborted"
    /\ Len(signals) = 1
    /\ signals[1].sender = 2

\* C3: the number of notifications delivered never exceeds the number of
\* requestSuggestions calls that started a request.
C3_AtMostOnePerCall == Len(signals) <= Len(replies)

\* Two requests were started and each has delivered its notification.
C3_Witness == Len(replies) = 2 /\ Len(signals) = 2

\* The inner strings of a body of the form [ "q", [ "s1", ..., "sn" ] ].
RECURSIVE StringList(_)
StringList(s) ==
    IF s = << >> THEN TRUE
    ELSE IF Len(s) = 1 THEN s[1].t = "str"
    ELSE s[1].t = "str" /\ s[2].t = "," /\ Len(s) >= 3 /\ StringList(SubSeq(s, 3, Len(s)))

InnerPart(b) == SubSeq(NoWs(b), 5, Len(NoWs(b)) - 2)

WellFormedBody(b) ==
    LET t == NoWs(b)
    IN  /\ Len(t) >= 6
        /\ t[1].t = "[" /\ t[2].t = "str" /\ t[3].t = "," /\ t[4].t = "["
        /\ t[Len(t) - 1].t = "]" /\ t[Len(t)].t = "]"
        /\ StringList(InnerPart(b))

ExpectedSuggestions(b) ==
    LET strs == SelectSeq(InnerPart(b), LAMBDA x : x.t = "str")
    IN  [i \in 1..Len(strs) |-> Str(strs[i].v)]

\* C4: when a request was issued before the previous one completed (which was
\* therefore aborted) and the transport has completed it with a well-formed
\* body, exactly one notification stems from the two requests: the later one's,
\* carrying the decoded list of its body.
C4_OnlySecondDelivers ==
    \A r \in ReplyIds :
        ( /\ r >= 2
          /\ replies[r - 1].state = "aborted"
          /\ replies[r].state = "finished"
          /\ ~replies[r].deleted
          /\ WellFormedBody(replies[r].got) ) =>
            SignalsOf({r - 1, r}) =
                << [sender |-> r, from |-> r, body |-> replies[r].got,
                    list |-> ExpectedSuggestions(replies[r].got)] >>

\* The second request superseded the first and delivered ["a","b"].
C4_Witness ==
    /\ Len(replies) = 2
    /\ replies[1].state = "aborted"
    /\ replies[2].state = "finished"
    /\ Len(signals) = 1
    /\ signals[1].sender = 2
    /\ signals[1].list = <<Str("a"), Str("b")>>

(***************************************************************************)
(* The structure of the document in the device, for the reader's claims     *)
(***************************************************************************)
Min(S) == CHOOSE x \in S : \A y \in S : x <= y

\* The first StartElement (0 if there is none).
RootIdx(dev) ==
    IF HasStart(dev) THEN Min({i \in 1..Len(dev) : dev[i].k = "S"}) ELSE 0

ValidRoot(dev) ==
    /\ RootIdx(dev) # 0
    /\ dev[RootIdx(dev)].n = "OpenSearchDescription"
    /\ dev[RootIdx(dev)].ns = OpenSearchNs

\* The EndElement of the element starting at i (0 if the input stops before it).
EndOf(dev, i) ==
    LET c == {j \in (i + 1)..Len(dev) : Depth(dev, j) = Depth(dev, i - 1)}
    IN  IF c = {} THEN 0 ELSE Min(c)

Closed(dev, i) == EndOf(dev, i) # 0

\* The StartElements that are immediate children of the element starting at i.
ChildrenOf(dev, i) ==
    {j \in (i + 1)..Len(dev) :
        /\ dev[j].k = "S"
        /\ Depth(dev, j - 1) = Depth(dev, i)
        /\ (Closed(dev, i) => j < EndOf(dev, i))}

RootChildren(dev) == IF RootIdx(dev) = 0 THEN {} ELSE ChildrenOf(dev, RootIdx(dev))

\* The elements of S in ascending order.
RECURSIVE Ascending(_)
Ascending(S) == IF S = {} THEN << >> ELSE <<Min(S)>> \o Ascending(S \ {Min(S)})

\* The type a Url element counts as: text/html when absent or xhtml.
SlotType(at) == IF at.type \in {Empty, XhtmlXml} THEN TextHtml ELSE at.type

SlotTypes == {TextHtml, SuggestionsJson}

\* The root's Url children of slot type T with a non-empty template.
UrlsOfType(dev, T) ==
    {j \in RootChildren(dev) :
        dev[j].n = "Url" /\ SlotType(dev[j].at) = T /\ dev[j].at.template # Empty}

IsParam(tok) == tok.k = "S" /\ tok.n \in {"Param", "Parameter"}

ValidParam(tok) == IsParam(tok) /\ tok.at.name # Empty /\ tok.at.value # Empty

\* The valid Param/Parameter children of the Url at i, in document order.
ValidParams(dev, i) ==
    LET ps == Ascending({j \in ChildrenOf(dev, i) : ValidParam(dev[j])})
    IN  [k \in 1..Len(ps) |-> <<dev[ps[k]].at.name, dev[ps[k]].at.value>>]

\* The method a Url element's method attribute stands for.
MethodOf(at) ==
    IF at.method \in {Str("get"), Str("GET"), Str("Get")} THEN Str("get")
    ELSE IF at.method \in {Str("post"), Str("POST"), Str("Post")} THEN Str("post")
    ELSE Str("get")

Slot(e, T) ==
    IF T = TextHtml
    THEN [template |-> e.searchUrlTemplate, parameters |-> e.searchParameters,
          method |-> e.searchMethod]
    ELSE [template |-> e.suggestionsUrlTemplate, parameters |-> e.suggestionsParameters,
          method |-> e.suggestionsMethod]

SlotOf(dev, i) ==
    [template |-> dev[i].at.template, parameters |-> ValidParams(dev, i),
     method |-> MethodOf(dev[i].at)]

Recognized == {"ShortName", "Description", "Url", "Image", "Tags"}

\* No ShortName, Description, Image or Tags element with an element inside.
PlainTexts(dev) ==
    \A i \in 1..Len(dev) :
        (dev[i].k = "S" /\ dev[i].n \in TextElems) => ChildrenOf(dev, i) = {}

\* The malformed fragments: a root's Url with an empty template or of an
\* unrecognized type, and a Param without name or value in a root's Url.
Fragments(dev) ==
    {f \in 1..Len(dev) :
        \/ /\ f \in RootChildren(dev)
           /\ dev[f].n = "Url"
           /\ (dev[f].at.template = Empty \/ SlotType(dev[f].at) \notin SlotTypes)
        \/ /\ IsParam(dev[f])
           /\ ~ValidParam(dev[f])
           /\ \E u \in RootChildren(dev) : dev[u].n = "Url" /\ f \in ChildrenOf(dev, u)}

(***************************************************************************)
(* Claims about the reader                                                  *)
(***************************************************************************)
\* C5: after reading a complete document with a valid root in which several Url
\* elements of one recognized type (with a non-empty template) are children of
\* the root, that type's slot holds the template, the valid parameters and the
\* method of the first of them.
C5_FirstUrlWins ==
    \A T \in SlotTypes :
        ( /\ rpc = "done"
          /\ ValidRoot(device)
          /\ Complete(device)
          /\ Cardinality(UrlsOfType(device, T)) >= 2 ) =>
            Slot(rd.m_engine, T) = SlotOf(device, Min(UrlsOfType(device, T)))

\* C6: after reading a whole document with a valid root (and no element inside
\* a text element), no error is raised and every recognized child of the root
\* that comes after a malformed fragment has been dispatched to its handler.
C6_FragmentNeverAborts ==
    ( /\ rpc = "done"
      /\ ValidRoot(device)
      /\ Complete(device)
      /\ PlainTexts(device) ) =>
        /\ rd.err = "NoError"
        /\ \A f \in Fragments(device) : \A j \in RootChildren(device) :
              (j > f /\ device[j].n \in Recognized) => j \in rd.disp

\* C7: the parameter list of a slot holds every valid Param/Parameter child of
\* the (closed) Url element that filled the slot, and nothing for the invalid ones.
C7_ValidSiblingsCaptured ==
    \A T \in SlotTypes :
        LET filled == UrlsOfType(device, T) \cap rd.disp
        IN  ( /\ rpc = "done"
              /\ ValidRoot(device)
              /\ filled # {}
              /\ Closed(device, Min(filled)) ) =>
                Slot(rd.m_engine, T).parameters = ValidParams(device, Min(filled))

\* C8: when the first start element is not OpenSearchDescription in the
\* OpenSearch 1.1 namespace, or there is none, read raises an error, never
\* enters the loop over the children and returns an engine with every field at
\* its default, which is not valid.
C8_WrongRootGivesDefault ==
    ~ValidRoot(device) =>
        /\ rpc # "loop"
        /\ rpc = "done" =>
              /\ rd.err = "CustomError"
              /\ ~rd.null
              /\ rd.disp = {}
              /\ rd.m_engine = OpenSearchEnginePrivate
              /\ rd.m_engine.searchMethod = Str("get")
              /\ rd.m_engine.suggestionsMethod = Str("get")
              /\ ~isValid(rd.m_engine)

\* A document in the wrong namespace, with a ShortName and its text, was read.
C8_Witness ==
    /\ rpc = "done"
    /\ Len(device) >= 3
    /\ device[1].k = "S"
    /\ device[1].n = "OpenSearchDescription"
    /\ device[1].ns # OpenSearchNs
    /\ device[2].n = "ShortName"
    /\ device[3].k = "C"

\* C9: with a valid root, a read that ends without error has stopped on the
\* root's own end marker; a read of an input that stops before the root's end
\* marker ends with an error; either way an engine is returned.
C9_StopsAtRootEnd ==
    (rpc = "done" /\ ValidRoot(device)) =>
        /\ ~rd.null
        /\ rd.err = "NoError" =>
              (Complete(device) /\ rd.pos = EndOf(device, RootIdx(device)))
        /\ ~Complete(device) => rd.err # "NoError"

\* The result of read(dev) on a newly constructed reader.
RECURSIVE RunLoop(_, _)
RunLoop(dev, x) == IF x.loop THEN RunLoop(dev, loopStep(dev, x.r)) ELSE x.r

FreshRead(dev) == RunLoop(dev, readBegin(dev, NewReader))

\* C10: every read returns a non-null engine constructed by that read, and what
\* it returns (fields, error state, cursor) is what a newly constructed reader
\* returns for the same device, whatever the reader has read before.
C10_ReadDependsOnDeviceOnly ==
    rpc = "done" =>
        /\ ~rd.null
        /\ rd.created = reads
        /\ rd.m_engine = FreshRead(device).m_engine
        /\ rd.err = FreshRead(device).err
        /\ rd.pos = FreshRead(device).pos
        /\ rd.disp = FreshRead(device).disp

\* The first read filled the search slot and ended in an error; the second
\* read, of another document, filled it differently and ended without error.
C10_Witness ==
    /\ rpc = "done"
    /\ reads = 2
    /\ prev.err # "NoError"
    /\ prev.m_engine.searchUrlTemplate # Empty
    /\ rd.err = "NoError"
    /\ rd.m_engine.searchUrlTemplate # Empty
    /\ rd.m_engine.searchUrlTemplate # prev.m_engine.searchUrlTemplate

(***************************************************************************)
(* Claims about the engine's fields (checked under SpecEngine)              *)
(***************************************************************************)
\* C11: after any sequence of setter calls, isValid() is true if and only if
\* the name is non-empty and the search template is non-empty; in particular
\* it is false for the default-constructed engine, and a step that leaves both
\* the name and the search template alone leaves isValid() alone.
C11_ValidIffNameAndTemplate ==
    /\ isValid(d) <=> (d.name # << >> /\ d.searchUrlTemplate # << >>)
    /\ d = OpenSearchEnginePrivate => ~isValid(d)

\* The name was cleared again after both were set: the search template and
\* every other field are set, the name is empty, and the engine is not valid.
C11_Witness ==
    /\ call = [op |-> "setName", arg |-> Empty, term |-> Empty]
    /\ d.name = Empty
    /\ d.searchUrlTemplate # Empty
    /\ d.description # Empty
    /\ d.suggestionsUrlTemplate # Empty
    /\ d.searchParameters # << >>
    /\ d.searchMethod = Str("post")
    /\ d.imageUrl # Empty
    /\ d.tags # << >>
    /\ d.networkAccessManager
    /\ d.delegate
    /\ ~isValid(d)

(***************************************************************************)
(* Claims about validity and the methods after a read                       *)
(***************************************************************************)
Max(S) == CHOOSE x \in S : \A y \in S : x >= y

\* The text directly inside the element starting at i.
RECURSIVE TextFrom(_, _)
TextFrom(dev, k) ==
    IF k <= Len(dev) /\ dev[k].k = "C" THEN dev[k].t \o TextFrom(dev, k + 1) ELSE << >>

TextOf(dev, i) == TextFrom(dev, i + 1)

ShortNames(dev) == {j \in RootChildren(dev) : dev[j].n = "ShortName"}

\* The document gives a name: its last ShortName has text.
GivesName(dev, among) ==
    LET sn == ShortNames(dev) \cap among
    IN  sn # {} /\ TextOf(dev, Max(sn)) # << >>

\* The document gives a search template: a text/html Url with a template.
GivesSearch(dev, among) == UrlsOfType(dev, TextHtml) \cap among # {}

AllElems(dev) == {j \in 1..Len(dev) : dev[j].k = "S"}

\* C12: the engine returned by read is valid exactly when a non-empty ShortName
\* and a text/html Url with a non-empty template were recorded, whatever the
\* error state; a document cut short after both gives a valid engine together
\* with an error, and a complete document lacking one of them gives an engine
\* that is not valid, without error.
C12_ValidityIndependentOfError ==
    (rpc = "done" /\ ValidRoot(device) /\ PlainTexts(device)) =>
        /\ isValid(rd.m_engine) <=>
              (GivesName(device, rd.disp) /\ GivesSearch(device, rd.disp))
        /\ ( /\ ~Complete(device)
             /\ GivesName(device, AllElems(device))
             /\ GivesSearch(device, AllElems(device)) ) =>
                (isValid(rd.m_engine) /\ rd.err # "NoError")
        /\ ( /\ Complete(device)
             /\ ~(GivesName(device, AllElems(device))
                    /\ GivesSearch(device, AllElems(device))) ) =>
                (~isValid(rd.m_engine) /\ rd.err = "NoError")

(***************************************************************************)
(* Claims about the handling of a completion (checked under SpecClient)     *)
(***************************************************************************)
\* The transport completes reply r in this step.
Completes(r) == replies[r].state = "running" /\ replies'[r].state = "finished"

\* Without its whitespace at both ends the body is empty, or it does not both
\* start with '[' and end with ']'.
Unbracketed(b) ==
    LET t == NoWs(b)
    IN  t = << >> \/ t[1].t # "[" \/ t[Len(t)].t # "]"

\* C13: a step in which a request completes with a body that, trimmed, is empty
\* or not enclosed in '[' and ']' emits no suggestions signal and does not end
\* the process.
C13_UnbracketedDropped ==
    [][\A r \in ReplyIds :
          (Completes(r) /\ Unbracketed(replies'[r].got)) =>
              (signals' = signals /\ ~crashed')]_vars

\* A request completed with ["q",["a"]]; (an array, but not ending with ']')
\* and nothing was emitted.
C13_Witness ==
    /\ Len(replies) = 1
    /\ replies[1].state = "finished"
    /\ replies[1].got = <<LB, QS("q"), COMMA, LB, QS("a"), RB, RB, SEMI>>
    /\ signals = << >>
    /\ ~crashed

\* The index of the first ']' of t from k on (0 if none).
RECURSIVE FirstClose(_, _)
FirstClose(t, k) ==
    IF k > Len(t) THEN 0 ELSE IF t[k].t = "]" THEN k ELSE FirstClose(t, k + 1)

\* A JSON array [ v, [ "s1", ..., "sn" ] ] or [ v, [ "s1", ..., "sn" ], [ ... ] ]:
\* its element at index 1 is an array of strings.
SuggestionsBody(b) ==
    LET t == NoWs(b)
        k == FirstClose(t, 5)
    IN  /\ Len(t) >= 6
        /\ t[1].t = "[" /\ t[2].t \in {"str", "num"} /\ t[3].t = "," /\ t[4].t = "["
        /\ k # 0
        /\ StringList(SubSeq(t, 5, k - 1))
        /\ \/ SubSeq(t, k + 1, Len(t)) = <<RB>>
           \/ /\ Len(t) >= k + 4
              /\ t[k + 1].t = "," /\ t[k + 2].t = "["
              /\ StringList(SubSeq(t, k + 3, Len(t) - 2))
              /\ t[Len(t) - 1].t = "]" /\ t[Len(t)].t = "]"

SuggestionsOf(b) ==
    LET t == NoWs(b)
        strs == SelectSeq(SubSeq(t, 5, FirstClose(t, 5) - 1), LAMBDA x : x.t = "str")
    IN  [i \in 1..Len(strs) |-> Str(strs[i].v)]

\* C14: a request that completed with a JSON array whose element at index 1 is
\* an array of strings has produced exactly one suggestions signal, carrying
\* those strings in their order (the empty list for an empty inner array).
C14_ArrayDelivered ==
    \A r \in ReplyIds :
        ( /\ replies[r].state = "finished"
          /\ ~replies[r].deleted
          /\ SuggestionsBody(replies[r].got) ) =>
            SignalsOf({r}) =
                << [sender |-> r, from |-> r, body |-> replies[r].got,
                    list |-> SuggestionsOf(replies[r].got)] >>

\* One request delivered ["a","b"] (from a body with whitespace around it), the
\* next one the empty list.
C14_Witness ==
    /\ Len(replies) = 2
    /\ Len(signals) = 2
    /\ signals[1].list = <<Str("a"), Str("b")>>
    /\ signals[2].list = << >>
    /\ signals[2].body = <<LB, QS("q"), COMMA, LB, RB, RB>>

\* C15: a request that completed with a bracketed body other than a two-element
\* array whose element at index 1 is an array of strings has produced no
\* suggestions signal.
C15_OnlyTwoElementStringArrays ==
    \A r \in ReplyIds :
        ( /\ replies[r].state = "finished"
          /\ ~replies[r].deleted
          /\ ~Unbracketed(replies[r].got)
          /\ ~WellFormedBody(replies[r].got) ) =>
            SignalsOf({r}) = << >>

\* C16: a step in which a request completes leaves no reply held and no request
\* in flight, whatever the body; and a requestSuggestions call made while no
\* reply is held starts a request and leaves every earlier reply as it was.
C16_BackToIdle ==
    /\ [][\A r \in ReplyIds :
            Completes(r) =>
                /\ d'.suggestionsReply = NullReply
                /\ \A q \in 1..Len(replies') :
                      ~(replies'[q].state = "running" /\ replies'[q].connected)]_vars
    /\ [][(d.suggestionsReply = NullReply /\ Len(replies') = Len(replies) + 1) =>
              /\ SubSeq(replies', 1, Len(replies)) = replies
              /\ d'.suggestionsReply = Len(replies')
              /\ replies'[Len(replies')].state = "running"
              /\ replies'[Len(replies')].connected
              /\ signals' = signals]_vars
    /\ [](d.suggestionsReply = NullReply => \A q \in ReplyIds : ~InFlight(q))

\* A request completed with a body of the wrong inner shape, nothing was
\* emitted, and the next request is in flight.
C16_Witness ==
    /\ Len(replies) = 2
    /\ replies[1].state = "finished"
    /\ replies[1].got = <<LB, QS("q"), COMMA, QS("a"), RB>>
    /\ signals = << >>
    /\ InFlight(2)
    /\ d.suggestionsReply = 2

\* C17: in every reachable state, requestSuggestions with an empty term, or
\* called while the suggestions template is empty or while no network access
\* manager is set, changes nothing: no reply is created, the replies (the one
\* in flight included) stay as they are, no signal is emitted and the process
\* goes on; this in a build with assertions and in one without.
C17_NoOpWithoutPreconditions ==
    \A searchTerm \in Terms, debugBuild \in BOOLEAN :
        ( \/ searchTerm = << >>
          \/ d.suggestionsUrlTemplate = << >>
          \/ ~d.networkAccessManager ) =>
            requestSuggestions(Client, searchTerm, debugBuild) = Client

(***************************************************************************)
(* Claims about the methods and the URL functions (SpecEngine, SpecReader)  *)
(***************************************************************************)
\* The method strings in lower case.
Lowered(m) ==
    IF m \in {Str("get"), Str("GET"), Str("Get")} THEN Str("get")
    ELSE IF m \in {Str("post"), Str("POST"), Str("Post")} THEN Str("post")
    ELSE IF m = Str("PUT") THEN Str("put")
    ELSE m

GetOrPost == {Str("get"), Str("post")}

\* C18: a call of setSearchMethod (setSuggestionsMethod) stores its argument
\* in lower case when that is "get" or "post" and changes nothing otherwise
\* (the empty string included): so for each recorded call of setSearchMethod,
\* and for both setters applied to any reachable engine; and in every
\* reachable state both methods are "get" or "post", starting from "get".
C18_MethodsGetOrPost ==
    /\ [][(call'.op = "setSearchMethod" /\ call' # call) =>
              d' = IF Lowered(call'.arg) \in GetOrPost
                   THEN [d EXCEPT !.searchMethod = Lowered(call'.arg)]
                   ELSE d]_vars
    /\ [](\A m \in MethodStrings :
              /\ setSearchMethod(d, m) =
                    IF Lowered(m) \in GetOrPost
                    THEN [d EXCEPT !.searchMethod = Lowered(m)]
                    ELSE d
              /\ setSuggestionsMethod(d, m) =
                    IF Lowered(m) \in GetOrPost
                    THEN [d EXCEPT !.suggestionsMethod = Lowered(m)]
                    ELSE d)
    /\ [](d.searchMethod \in GetOrPost /\ d.suggestionsMethod \in GetOrPost)
    /\ (d.searchMethod = Str("get") /\ d.suggestionsMethod = Str("get"))

\* Both methods had been set to "post" (from "POST" or "Post"); then
\* setSearchMethod("put") was called and the search method is still "post".
C18_Witness ==
    /\ call = [op |-> "setSearchMethod", arg |-> Str("put"), term |-> Empty]
    /\ d.searchMethod = Str("post")
    /\ d.suggestionsMethod = Str("post")

\* The Url elements of slot type T with a template that read has dispatched on.
DispatchedUrls(T) ==
    {j \in rd.disp :
        device[j].n = "Url" /\ SlotType(device[j].at) = T /\ device[j].at.template # Empty}

\* C19: after read, the method of each slot is the method attribute, in lower
\* case, of the Url element that filled the slot (the first one dispatched of
\* that type with a template) when that is "get" or "post", and "get"
\* otherwise: attribute absent, empty or unsupported, or slot never filled.
C19_SlotMethodFromFillingUrl ==
    rpc = "done" =>
        \A T \in SlotTypes :
            Slot(rd.m_engine, T).method =
                IF DispatchedUrls(T) = {} THEN Str("get")
                ELSE LET m == Lowered(device[Min(DispatchedUrls(T))].at.method)
                     IN  IF m \in GetOrPost THEN m ELSE Str("get")

\* The search slot was filled by a Url without a method attribute, a later
\* text/html Url with method POST was skipped, and the suggestions slot was
\* filled by a Url with method Post.
C19_Witness ==
    /\ rpc = "done"
    /\ rd.m_engine.searchUrlTemplate = Str("http://b/")
    /\ rd.m_engine.searchMethod = Str("get")
    /\ \E j \in rd.disp : device[j].at.template = Str("http://a/")
    /\ rd.m_engine.suggestionsMethod = Str("post")

\* The URL the claim describes for a slot and a term.
ExpectedUrl(template, parameters, method, term) ==
    IF template = << >> THEN NoUrl
    ELSE [ encoded |-> parseTemplate(term, template),
           items   |-> IF method = Str("get")
                       THEN [i \in 1..Len(parameters) |->
                                <<parameters[i][1], parseTemplate(term, parameters[i][2])>>]
                       ELSE << >> ]

\* C20: searchUrl(term) and suggestionsUrl(term) return the empty URL when the
\* slot's template is empty; otherwise the expanded template, with the stored
\* parameters appended as query items, in stored order and each value expanded
\* against the same term, when the slot's method is "get", and with no query
\* item appended when it is "post".
C20_UrlByTemplateAndMethod ==
    /\ call.op = "searchUrl" =>
          ret = ExpectedUrl(d.searchUrlTemplate, d.searchParameters,
                            d.searchMethod, call.term)
    /\ call.op = "suggestionsUrl" =>
          ret = ExpectedUrl(d.suggestionsUrlTemplate, d.suggestionsParameters,
                            d.suggestionsMethod, call.term)

\* searchUrl("a b") on an engine with a search template, two search
\* parameters and method "post" returned the expanded template alone.
C20_Witness ==
    /\ call = [op |-> "searchUrl", arg |-> Empty, term |-> Str("a b")]
    /\ d.searchMethod = Str("post")
    /\ Len(d.searchParameters) = 2
    /\ ret = [encoded |-> <<"http://a/?q=", "a%20b", "&n=", "20">>, items |-> << >>]

(***************************************************************************)
(* Requests                                                                 *)
(***************************************************************************)
\* The parameter pairs url-encoded, key=value in stored order, joined with "&".
RECURSIVE EncodedBody(_, _)
EncodedBody(parameters, i) ==
    IF i > Len(parameters) THEN << >>
    ELSE (IF i > 1 THEN <<"&">> ELSE << >>)
             \o ToPercentEncoding(parameters[i][1]) \o <<"=">>
             \o ToPercentEncoding(parameters[i][2])
             \o EncodedBody(parameters, i + 1)

\* The expanded template alone, no parameter appended.
BaseUrl(searchTerm, template) ==
    IF IsEmpty(template) THEN NoUrl
    ELSE [encoded |-> parseTemplate(searchTerm, template), items |-> << >>]

\* What the claim says of a request built for a record with this method.
RequestAsStated(req, searchTerm, template, parameters, method) ==
    IF method = Str("post")
    THEN /\ req.operation = "post"
         /\ req.url = BaseUrl(searchTerm, template)
         /\ req.data = EncodedBody(parameters, 1)
    ELSE /\ req.operation = "get"
         /\ req.data = << >>

\* C21: for a POST-method record the request built by requestSuggestions and
\* by requestSearchResults has the base URL without parameters and a body of
\* the record's parameter pairs, url-encoded, key=value in stored order joined
\* with "&"; for a GET-method record the request has no body.
C21_PostBodyUrlEncoded ==
    \A searchTerm \in UrlTerms \ {Empty} :
        /\ providesSuggestions(d) =>
               RequestAsStated(suggestionsRequest(d, searchTerm), searchTerm,
                               d.suggestionsUrlTemplate, d.suggestionsParameters,
                               d.suggestionsMethod)
        /\ d.delegate =>
               RequestAsStated(requestSearchResults(d, searchTerm)[1], searchTerm,
                               d.searchUrlTemplate, d.searchParameters,
                               d.searchMethod)

\* C22: requestSearchResults(term) does nothing when term is empty or no
\* performer is attached; otherwise it calls the performer exactly once with
\* the search URL for term, the operation of the stored search method (GET
\* for "get", POST for "post") and the body.
C22_PerformerCalledOnce ==
    /\ [](call.op = "requestSearchResults" =>
             IF IsEmpty(call.term) \/ ~d.delegate
             THEN ret.performed = << >>
             ELSE /\ Len(ret.performed) = 1
                  /\ ret.performed[1].url = searchUrl(d, call.term)
                  /\ d.searchMethod = Str("get") => ret.performed[1].operation = "get"
                  /\ d.searchMethod = Str("post") => ret.performed[1].operation = "post"
                  /\ ret.performed[1].data =
                         IF d.searchMethod = Str("post")
                         THEN joinParameters(d.searchParameters, 1) ELSE << >>)
    /\ [][call'.op = "requestSearchResults" => UNCHANGED clientVars]_vars

C22_Witness ==
    /\ call = [op |-> "requestSearchResults", arg |-> Empty, term |-> Str("a b")]
    /\ d.delegate
    /\ d.searchMethod = Str("post")
    /\ Len(ret.performed) = 1
    /\ ret.performed[1].operation = "post"
    /\ Len(ret.performed[1].data) > 3
    /\ ret.performed[1].url.encoded = <<"http://a/?q=", "a%20b", "&n=", "20">>

(***************************************************************************)
(* Template expansion (checked under SpecTemplate)                          *)
(***************************************************************************)
\* What stands in the place of one symbol of the template.
Substitute(searchTerm, c) ==
    CASE c = "{count}"          -> <<"20">>
      [] c = "{startIndex}"     -> <<"0">>
      [] c = "{startPage}"      -> <<"0">>
      [] c = "{language}"       -> <<Language>>
      [] c = "{inputEncoding}"  -> <<"UTF-8">>
      [] c = "{outputEncoding}" -> <<"UTF-8">>
      [] c \in SourceForms      -> <<ApplicationName>>
      [] c = "{searchTerms}"    -> ToPercentEncoding(searchTerm)
      [] OTHER                  -> <<c>>

RECURSIVE Expanded(_, _)
Expanded(searchTerm, template) ==
    IF template = << >> THEN << >>
    ELSE Substitute(searchTerm, Head(template)) \o Expanded(searchTerm, Tail(template))

\* C23: expand(term, template) is the template with {count} replaced by 20,
\* {startIndex} and {startPage} by 0, {language} by the locale tag,
\* {inputEncoding} and {outputEncoding} by UTF-8, every {source}-form
\* placeholder by the application name and last {searchTerms} by the
\* percent-encoded term: the term stands where each {searchTerms} was and
\* every other brace token is left untouched in place.
C23_ExpandReplacesInPlace ==
    call.op = "parseTemplate" => ret.text = Expanded(call.term, call.arg)

C23_Witness ==
    /\ call = [op |-> "parseTemplate", arg |-> <<"{unknown}", "{searchTerms}">>,
               term |-> Str("{count}")]
    /\ ret.text = <<"{unknown}", "%7Bcount%7D">>

(***************************************************************************)
(* More claims about the reader                                             *)
(***************************************************************************)
\* C24: after a read, the parameter list of a slot is exactly the valid Param
\* and Parameter children, in document order, of the (closed) Url element that
\* filled the slot, and it is empty when that Url has none or when no Url
\* filled the slot: no parameter of a skipped or discarded Url is in a slot.
C24_ParametersOfFillingUrl ==
    \A T \in SlotTypes :
        LET filled == UrlsOfType(device, T) \cap rd.disp
        IN  (rpc = "done" /\ ValidRoot(device)) =>
                IF filled = {}
                THEN Slot(rd.m_engine, T).parameters = << >>
                ELSE Closed(device, Min(filled)) =>
                        /\ Slot(rd.m_engine, T).parameters = ValidParams(device, Min(filled))
                        /\ ValidParams(device, Min(filled)) = << >> =>
                              Slot(rd.m_engine, T).parameters = << >>


\* The maximal runs of symbols other than the space, in order.
Words(text) ==
    LET starts == {i \in 1..Len(text) :
                      text[i] # " " /\ (i = 1 \/ text[i - 1] = " ")}
        RunEnd(i) == Min({j \in i..Len(text) : j = Len(text) \/ text[j + 1] = " "})
        ss == Ascending(starts)
    IN  [k \in 1..Len(ss) |-> SubSeq(text, ss[k], RunEnd(ss[k]))]

\* The Tags elements the reader handed to readTags.
TagsRead == {j \in rd.disp : device[j].n = "Tags"}

C26_DestroyCancelsRequest ==
    [][ /\ (Alive /\ ~Alive') =>
              \A r \in ReplyIds : InFlight(r) => replies'[r].state = "aborted"
        /\ ~Alive => (signals' = signals /\ d' = d /\ ~crashed') ]_vars


(***************************************************************************)
(* Equality (checked under SpecEquals)                                      *)
(***************************************************************************)
ComparedFields ==
    { "name", "description", "imageUrl", "searchUrlTemplate",
      "suggestionsUrlTemplate", "searchParameters", "suggestionsParameters" }

\* C27: two engines compare equal exactly when they agree on name,
\* description, image reference, both templates and both parameter lists:
\* engines that agree on these are equal even when their methods or tags
\* differ, and a difference in any one of these fields makes them unequal.
C27_EqualityOverComparedFields ==
    call.op = "operator==" =>
        /\ (\A f \in ComparedFields : d[f] = ret.other[f]) => ret.equal
        /\ (\E f \in ComparedFields : d[f] # ret.other[f]) => ~ret.equal

\* Two engines that differ in a method and in the tags only compared equal.
C27_Witness ==
    /\ call.op = "operator=="
    /\ ret.equal
    /\ d.name # Empty
    /\ d.searchParameters # << >>
    /\ d.tags # ret.other.tags
    /\ d.searchMethod # ret.other.searchMethod


\* The pass of the loop of readDocument that hands element j to its handler.
Dispatches(j) == rpc = "loop" /\ j \notin rd.disp /\ j \in rd'.disp

\* The handler has left the element starting at j behind: the cursor is on its
\* end marker, or at the end of an input that stops before it.
WalkedToEnd(j) ==
    IF Closed(device, j) THEN rd'.pos = EndOf(device, j) ELSE rd'.pos >= Len(device)

IsUrl(j) == device[j].k = "S" /\ device[j].n = "Url"

OtherType(T) == IF T = TextHtml THEN SuggestionsJson ELSE TextHtml

\* C29: a Url element whose type is neither text/html (after normalization) nor
\* application/x-suggestions+json is walked to its end and changes neither
\* slot; a Url of one recognized type never changes the template, parameters
\* or method of the other type's slot.
C29_OtherTypesChangeNoSlot ==
    [][\A j \in 1..Len(device) :
          (Dispatches(j) /\ IsUrl(j)) =>
              IF SlotType(device[j].at) \in SlotTypes
              THEN Slot(rd'.m_engine, OtherType(SlotType(device[j].at)))
                      = Slot(rd.m_engine, OtherType(SlotType(device[j].at)))
              ELSE /\ WalkedToEnd(j)
                   /\ \A T \in SlotTypes : Slot(rd'.m_engine, T) = Slot(rd.m_engine, T)]_vars

\* The document with every Url type that counts as text/html written out.
AsTextHtml(dev) ==
    [i \in 1..Len(dev) |->
        IF dev[i].k = "S" /\ dev[i].n = "Url" /\ dev[i].at.type \in {Empty, XhtmlXml}
        THEN [dev[i] EXCEPT !.at.type = TextHtml]
        ELSE dev[i]]

\* The method a slot has once a Url with this method attribute has filled it.
MethodAfter(old, at) ==
    IF Lowered(at.method) \in GetOrPost THEN Lowered(at.method) ELSE old

\* C30: a Url element whose type attribute is absent, empty or
\* application/xhtml+xml is treated as one of type text/html: with a template
\* it fills the search slot when that slot is empty and is skipped, changing
\* nothing, when the search slot is filled; and a read gives what it gives for
\* the same document with text/html written in these Urls.
C30_DefaultTypeIsTextHtml ==
    /\ [][\A j \in 1..Len(device) :
            ( /\ Dispatches(j)
              /\ IsUrl(j)
              /\ device[j].at.type \in {Empty, XhtmlXml}
              /\ device[j].at.template # Empty ) =>
                IF rd.m_engine.searchUrlTemplate = Empty
                THEN /\ rd'.m_engine.searchUrlTemplate = device[j].at.template
                     /\ rd'.m_engine.searchMethod =
                           MethodAfter(rd.m_engine.searchMethod, device[j].at)
                     /\ Slot(rd'.m_engine, SuggestionsJson) = Slot(rd.m_engine, SuggestionsJson)
                ELSE /\ rd'.m_engine = rd.m_engine
                     /\ WalkedToEnd(j)]_vars
    /\ [](rpc = "done" =>
            LET x == FreshRead(AsTextHtml(device))
            IN  /\ rd.m_engine = x.m_engine
                /\ rd.err = x.err
                /\ rd.pos = x.pos)

\* A Url of type application/xhtml+xml filled the search slot and a later Url
\* without a type was skipped.
C30_Witness ==
    /\ rpc = "done"
    /\ \E j, k \in rd.disp :
          /\ j < k
          /\ IsUrl(j)
          /\ device[j].at.type = XhtmlXml
          /\ IsUrl(k)
          /\ device[k].at.type = Empty
          /\ device[k].at.template = Str("http://b/")
    /\ rd.m_engine.searchUrlTemplate = Str("http://x/")
    /\ rd.m_engine.suggestionsUrlTemplate = Empty


(***************************************************************************)
(* The walk of the reader                                                   *)
(***************************************************************************)
IsPrefix(s, t) == Len(s) <= Len(t) /\ \A i \in 1..Len(s) : s[i] = t[i]

RootChildrenNamed(n) == {j \in RootChildren(device) : device[j].n = n}

\* C31: only immediate children of the root are dispatched; an unrecognized
\* child of the root is skipped with all its descendants and without error; so
\* the name, description, image, tags and templates of the engine come from
\* children of the root only, and the parameters of a slot from immediate
\* children of the Url that filled it.
C31_OnlyRootChildrenDispatched ==
    /\ []((rpc \in {"loop", "done"} /\ ValidRoot(device)) =>
            /\ rd.disp \subseteq RootChildren(device)
            /\ rd.m_engine.name # Empty => RootChildrenNamed("ShortName") # {}
            /\ rd.m_engine.description # Empty => RootChildrenNamed("Description") # {}
            /\ rd.m_engine.imageUrl # Empty => RootChildrenNamed("Image") # {}
            /\ rd.m_engine.tags # << >> => RootChildrenNamed("Tags") # {}
            /\ \A T \in SlotTypes :
                  LET filled == UrlsOfType(device, T) \cap rd.disp
                  IN  IF filled = {}
                      THEN Slot(rd.m_engine, T).template = Empty
                      ELSE IsPrefix(Slot(rd.m_engine, T).parameters,
                                    ValidParams(device, Min(filled))))
    /\ [][\A j \in 1..Len(device) :
            (Dispatches(j) /\ device[j].n \notin Recognized) =>
                /\ rd'.m_engine = rd.m_engine
                /\ WalkedToEnd(j)
                /\ Closed(device, j) => rd'.err = rd.err]_vars


\* C32: after reading a document with a valid root, every ShortName and every
\* Description element that is an immediate child of the root has been
\* processed, and the name (the description) of the engine is the text of the
\* last of them.
C32_LastNameAndDescriptionWin ==
    (rpc = "done" /\ ValidRoot(device) /\ Complete(device) /\ PlainTexts(device)) =>
        /\ RootChildrenNamed("ShortName") \subseteq rd.disp
        /\ RootChildrenNamed("Description") \subseteq rd.disp
        /\ RootChildrenNamed("ShortName") # {} =>
              rd.m_engine.name = TextOf(device, Max(RootChildrenNamed("ShortName")))
        /\ RootChildrenNamed("Description") # {} =>
              rd.m_engine.description =
                  TextOf(device, Max(RootChildrenNamed("Description")))


\* A reader on the start element at p, as a handler finds it.
ReaderAt(p) == [NewReader EXCEPT !.pos = p, !.null = FALSE]

\* Where the handler of the element starting at p leaves the cursor.
HandlerEnd(dev, p) ==
    LET n == dev[p].n
        r == ReaderAt(p)
    IN  CASE n = "ShortName"   -> readName(dev, r).pos
          [] n = "Description" -> readDescription(dev, r).pos
          [] n = "Url"         -> readUrl(dev, r).pos
          [] n = "Image"       -> readImage(dev, r).pos
          [] n = "Tags"        -> readTags(dev, r).pos
          [] n \in {"Param", "Parameter"} -> readParameter(dev, r, << >>).r.pos
          [] OTHER             -> skipSubtree(dev, r).pos

\* C33: every element handler (readName, readDescription, readUrl,
\* readParameter, readImage, readTags, skipSubtree), called on a start element
\* whose end marker is in the input, returns with the cursor on that end
\* marker, whatever the element contains; hence a read that stops on an end
\* marker has stopped on the root's own.
C33_HandlersStopOnOwnEnd ==
    rpc = "done" =>
        /\ \A p \in 1..Len(device) :
              (device[p].k = "S" /\ Closed(device, p)) =>
                  /\ HandlerEnd(device, p) = EndOf(device, p)
                  /\ skipSubtree(device, ReaderAt(p)).pos = EndOf(device, p)
        /\ (ValidRoot(device) /\ rd.err = "NoError" /\ device[rd.pos].k = "E") =>
              rd.pos = EndOf(device, RootIdx(device))


(***************************************************************************)
(* More claims about the suggestion client                                  *)
(***************************************************************************)
\* The slot has run for reply r in this step: it has read and closed it.
Handled(r) == ~replies[r].closed /\ replies'[r].closed /\ ~replies'[r].deleted

\* C34: suggestionsObtained runs only for the reply recorded as current: the
\* only reply that is running and attached to the slot is the current one, the
\* slot handles a reply only when that reply is the current one and has just
\* finished, it never runs on a cleared pointer (no crash when a reply ends),
\* and what it delivers was read from the reply that sent the signal.
C34_SlotOnlyForCurrentReply ==
    /\ [](\A r \in ReplyIds :
            (replies[r].connected /\ replies[r].state = "running" /\ ~replies[r].deleted)
                => d.suggestionsReply = r)
    /\ [](\A i \in 1..Len(signals) : signals[i].sender = signals[i].from)
    /\ [][\A r \in 1..Len(replies) :
            /\ Handled(r) =>
                  /\ d.suggestionsReply = r
                  /\ replies[r].state = "running"
                  /\ replies'[r].state = "finished"
                  /\ d'.suggestionsReply = NullReply
            /\ (replies[r].state = "running" /\ replies'[r].state # "running") =>
                  ~crashed']_vars

\* The first reply was superseded while running and never handled; the second
\* finished, was handled as the current one and has delivered.
C34_Witness ==
    /\ Len(replies) = 2
    /\ replies[1].state = "aborted"
    /\ ~replies[1].connected
    /\ ~replies[1].closed
    /\ replies[2].state = "finished"
    /\ replies[2].closed
    /\ d.suggestionsReply = NullReply
    /\ Len(signals) = 1
    /\ signals[1].sender = 2
    /\ signals[1].from = 2


\* C35: read terminates on every finite input, truncated, with the wrong root
\* or with nested unrecognized elements: a read that has entered the loop of
\* readDocument returns, and every pass of the loop that does not leave it
\* advances the cursor or raises the error that ends the loop at the next
\* check.
C35_ReadTerminates ==
    /\ (rpc = "loop") ~> (rpc = "done")
    /\ [][(rpc = "loop" /\ rpc' = "loop") =>
            \/ rd'.pos > rd.pos
            \/ (rd.err = "NoError" /\ rd'.err # "NoError")]_vars

\* The read of an input that stops inside two nested unrecognized elements
\* has returned, with the error of the early end.
C35_Witness ==
    /\ rpc = "done"
    /\ ValidRoot(device)
    /\ Len(device) >= 3
    /\ device[2].k = "S" /\ device[2].n = "Other"
    /\ device[3].k = "S" /\ device[3].n = "Other"
    /\ ~Complete(device)
    /\ rd.err = "PrematureEndOfDocumentError"



(***************************************************************************)
(* The body of a POST request and the search term                           *)
(***************************************************************************)
\* The stored pairs as they stand: name=value after name=value, "&" between.
RECURSIVE VerbatimBody(_)
VerbatimBody(parameters) ==
    IF parameters = << >> THEN << >>
    ELSE LET n == Len(parameters)
             front == SubSeq(parameters, 1, n - 1)
         IN  VerbatimBody(front) \o (IF n > 1 THEN <<"&">> ELSE << >>)
                 \o parameters[n][1] \o <<"=">> \o parameters[n][2]

\* A POST request for searchTerm as the claim has it: the term is in the
\* expanded template and nowhere else.
TermOnlyInUrl(req, searchTerm, template, parameters) ==
    /\ req.operation = "post"
    /\ req.url = BaseUrl(searchTerm, template)
    /\ req.data = VerbatimBody(parameters)

\* C36: for a POST-method record the body of the request is the stored
\* parameter pairs verbatim, no placeholder expanded: the requests built from
\* one Descriptor for two different search terms have the same body, and the
\* term is found in the request's URL, through the expanded template, only.
C36_PostBodyIndependentOfTerm ==
    /\ \A t1 \in UrlTerms \ {Empty}, t2 \in UrlTerms \ {Empty} :
          /\ (providesSuggestions(d) /\ d.suggestionsMethod = Str("post")) =>
                 /\ suggestionsRequest(d, t1).data = suggestionsRequest(d, t2).data
                 /\ TermOnlyInUrl(suggestionsRequest(d, t1), t1,
                                  d.suggestionsUrlTemplate, d.suggestionsParameters)
          /\ (d.delegate /\ d.searchMethod = Str("post")) =>
                 /\ requestSearchResults(d, t1)[1].data =
                        requestSearchResults(d, t2)[1].data
                 /\ TermOnlyInUrl(requestSearchResults(d, t1)[1], t1,
                                  d.searchUrlTemplate, d.searchParameters)
    /\ (/\ call.op = "requestSearchResults"
        /\ d.searchMethod = Str("post")
        /\ ret.performed # << >>) =>
           TermOnlyInUrl(ret.performed[1], call.term,
                         d.searchUrlTemplate, d.searchParameters)

C36_Witness ==
    /\ call.op = "requestSearchResults"
    /\ call.term = Str("q1")
    /\ d.searchMethod = Str("post")
    /\ d.suggestionsMethod = Str("post")
    /\ providesSuggestions(d)
    /\ Len(d.suggestionsParameters) = 2
    /\ Len(ret.performed) = 1
    /\ ret.performed[1].data =
           Str("k1") \o <<"=", "{searchTerms}", "&">> \o Str("k2") \o <<"=", "a b", "{language}">>
    /\ ret.performed[1].url.encoded = <<"http://a/?q=", "q1", "&n=", "20">>


(***************************************************************************)
(* What the requests leave alone                                            *)
(***************************************************************************)
\* The data of the Descriptor: every field but the performer, the transport
\* and the pointer to the reply in flight.
DataFields(e) == [i \in 1..Len(EngineFields) |-> e[EngineFields[i]]]

\* A step of requestSearchResults: the call is what the step records.
SearchRequested ==
    /\ call'.op = "requestSearchResults"
    /\ <<call, ret>>' # <<call, ret>>

\* A step of the suggestion client: a request started or refused, a reply
\* completed and handled, a reply destroyed.
ClientStepped ==
    \/ replies' # replies
    \/ signals' # signals
    \/ crashed' # crashed
    \/ d'.suggestionsReply # d.suggestionsReply

\* C37: requestSearchResults leaves the state of the suggestion client as it
\* is (the request in flight is not cancelled, detached or replaced), and the
\* data fields of the Descriptor are changed neither by requestSearchResults
\* nor by requestSuggestions nor by the handling of a completed reply.
C37_RequestsLeaveDataAlone ==
    /\ [][SearchRequested => UNCHANGED clientVars]_vars
    /\ [][(SearchRequested \/ ClientStepped) => DataFields(d') = DataFields(d)]_vars

C37_Witness ==
    /\ call.op = "requestSearchResults"
    /\ Len(ret.performed) = 1
    /\ Len(replies) = 2
    /\ replies[1].state = "finished"
    /\ d.suggestionsReply = 2
    /\ replies[2].state = "running"
    /\ replies[2].connected
    /\ signals # << >>
    /\ d.suggestionsMethod = Str("post")

====
